---- MODULE Spec2Model ----
(***************************************************************************)
(* A model of the prometheus-scrape interface library                      *)
(* (src/prometheus_scrape/prometheus_scrape.py).                           *)
(*                                                                         *)
(* Text that the code slices, joins or formats is a sequence of            *)
(* one-character strings, so that "{}_{}".format(..), str[:7] and          *)
(* str.replace are computed rather than assumed.  Dictionary keys that the *)
(* code only looks up are TLA+ strings, and a dict is a function from its  *)
(* keys.  A relation databag value that the code stores with json.dumps    *)
(* and reads back with json.loads is kept as the decoded value: every      *)
(* value stored is made of str, list and dict only, on which the round     *)
(* trip is the identity and keeps key and list order; what json.loads is   *)
(* given when a key was never written (the .get default) is modelled by    *)
(* the has_* flags.                                                        *)
(*                                                                         *)
(* Each action is one notification handled to completion: the framework    *)
(* first brings the relation view up to date (the unit joins, changes its  *)
(* databag, or leaves), then the observing handler runs.                   *)
(***************************************************************************)
EXTENDS Integers, Sequences, FiniteSets, TLC

(***************************************************************************)
(* Bounds                                                                  *)
(***************************************************************************)
NumUnits == 2   \* units per related application: indices 0 .. NumUnits-1
NumDown == 2    \* relations towards Prometheus (the "downstream" side)
MaxTopologies == 2   \* topology objects alive at once
MaxCalls == 2        \* reads of .identifier per topology object
NumProv == 2         \* provider relations of the MetricsEndpointConsumer
NumRules == 2        \* AlertRules collections
MaxAdds == 2             \* calls of add_path
MaxObjects == 3         \* constructions of library objects
MaxApplies == 3         \* calls of apply_label_matchers
MaxRuns == 3            \* handler runs of MetricsEndpointProvider
MaxReads == 3           \* calls of jobs() on the same relation data
MaxAlertsCalls == 2     \* calls of alerts() on the same relation data

(***************************************************************************)
(* Program constants                                                       *)
(***************************************************************************)
UuidPrefixLen == 7     \* self.model.uuid[:7]
DefaultPort == 80      \* relation.data[unit].get("port", 80)

(***************************************************************************)
(* Text helpers                                                            *)
(***************************************************************************)
Digits == <<"0", "1", "2", "3", "4", "5", "6", "7", "8", "9">>

RECURSIVE FormatInt(_)
\* "{}".format(n) for a non-negative int
FormatInt(n) ==
    IF n < 10 THEN <<Digits[n + 1]>>
    ELSE FormatInt(n \div 10) \o <<Digits[(n % 10) + 1]>>

\* s[:n]
Prefix(s, n) == SubSeq(s, 1, IF Len(s) < n THEN Len(s) ELSE n)

\* the elements of a set of integers, ascending
RECURSIVE Ascending(_)
Ascending(S) ==
    IF S = {} THEN <<>>
    ELSE LET m == CHOOSE x \in S : \A y \in S : x <= y
         IN  <<m>> \o Ascending(S \ {m})

\* the elements of a sequence
Range(seq) == {seq[i] : i \in 1 .. Len(seq)}

\* the orders in which a loop may walk a Python set: every element once
IterationOrders(S) ==
    {order \in [1 .. Cardinality(S) -> S] :
        \A i, j \in 1 .. Cardinality(S) : i # j => order[i] # order[j]}

\* the concatenation of a sequence of sequences
RECURSIVE Concat(_)
Concat(ss) == IF ss = <<>> THEN <<>> ELSE Head(ss) \o Concat(Tail(ss))

\* dict.update: d with the items of e written over it
DictUpdate(d, e) ==
    [k \in (DOMAIN d) \cup (DOMAIN e) |-> IF k \in DOMAIN e THEN e[k] ELSE d[k]]

\* dict.get(key, default)
DictGet(d, k, default) == IF k \in DOMAIN d THEN d[k] ELSE default

EmptyDict == [k \in {} |-> <<>>]

(***************************************************************************)
(* The charm's own model (self.model.name, self.model.uuid) and its peers  *)
(***************************************************************************)
ModelName == <<"l", "m", "a">>
ModelUuid == <<"1", "2", "3", "4", "5", "6", "7", "8", "9">>

AppA == <<"a">>
AppB == <<"b">>
Apps == {AppA, AppB}
\* self.model.relations[name] lists relations in a fixed order
AppOrder == <<AppA, AppB>>

UnitIdx == 0 .. (NumUnits - 1)
\* the units an application can have: AppA has NumUnits, AppB one fewer
UnitsOf(app) == IF app = AppA THEN UnitIdx ELSE 0 .. (NumUnits - 2)
DownRels == 1 .. NumDown

\* ops unit names are "<application>/<number>"
UnitName(app, u) == app \o <<"/">> \o FormatInt(u)

\* hostname a unit of a scrape target publishes
HostOf(app, u) == <<"h">> \o app \o FormatInt(u)

(***************************************************************************)
(* JujuTopology and its two children.  A topology is a record of texts;    *)
(* unit and charm_name are <<>> when empty.  An ordered dict is a sequence *)
(* of [k, v] items.                                                        *)
(***************************************************************************)
Topology(model, model_uuid, application, unit, charm_name) ==
    [model |-> model, model_uuid |-> model_uuid, application |-> application,
     unit |-> unit, charm_name |-> charm_name]

\* AggregatorTopology.create
AggregatorTopologyCreate(model, model_uuid, application, unit) ==
    Topology(model, model_uuid, application, unit, <<>>)

\* "juju_{}".format(key)
JujuKey(k) ==
    CASE k = "model" -> "juju_model"
      [] k = "model_uuid" -> "juju_model_uuid"
      [] k = "application" -> "juju_application"
      [] k = "unit" -> "juju_unit"
      [] k = "charm_name" -> "juju_charm_name"
      [] k = "charm" -> "juju_charm"

\* rename_keys.get(key, key)
RenameKey(rename_keys, k) == IF k \in DOMAIN rename_keys THEN rename_keys[k] ELSE k

\* d[key] = value on an ordered dict: a key that is there keeps its place
\* and takes the value, a new key goes to the end
SetItem(d, item) ==
    IF \E i \in 1 .. Len(d) : d[i].k = item.k
    THEN [i \in 1 .. Len(d) |-> IF d[i].k = item.k THEN item ELSE d[i]]
    ELSE Append(d, item)

\* OrderedDict(items)
RECURSIVE OrderedDictOf(_)
OrderedDictOf(items) ==
    IF items = <<>> THEN <<>>
    ELSE SetItem(OrderedDictOf(SubSeq(items, 1, Len(items) - 1)), items[Len(items)])

\* the items with their keys renamed: rename_keys.get(key, key)
Renamed(items, rename_keys) ==
    [i \in 1 .. Len(items) |-> [k |-> RenameKey(rename_keys, items[i].k), v |-> items[i].v]]

\* JujuTopology.as_dict without the two pops
as_dictKeepingEmpty(t, rename_keys) ==
    OrderedDictOf(Renamed(<<[k |-> "model", v |-> t.model],
                            [k |-> "model_uuid", v |-> t.model_uuid],
                            [k |-> "application", v |-> t.application],
                            [k |-> "unit", v |-> t.unit],
                            [k |-> "charm_name", v |-> t.charm_name]>>,
                          rename_keys))

\* JujuTopology.as_dict: unit and charm_name are popped when falsy, then the
\* keys are renamed into a new OrderedDict
as_dict(t, rename_keys) ==
    OrderedDictOf(Renamed(SelectSeq(<<[k |-> "model", v |-> t.model],
                                      [k |-> "model_uuid", v |-> t.model_uuid],
                                      [k |-> "application", v |-> t.application],
                                      [k |-> "unit", v |-> t.unit],
                                      [k |-> "charm_name", v |-> t.charm_name]>>,
                                    LAMBDA it : ~(it.k \in {"unit", "charm_name"}
                                                  /\ it.v = <<>>)),
                          rename_keys))

\* ProviderLabelDict without the pop of juju_unit
ProviderLabelDictKeepingUnit(t) ==
    LET vals == as_dict(t, [charm_name |-> "charm"])
    IN  [i \in 1 .. Len(vals) |-> [k |-> JujuKey(vals[i].k), v |-> vals[i].v]]

\* JujuTopology.as_promql_label_dict (inherited by ProviderTopology):
\* juju_unit is popped
ProviderLabelDict(t) ==
    LET vals == as_dict(t, [charm_name |-> "charm"])
        pre == [i \in 1 .. Len(vals) |-> [k |-> JujuKey(vals[i].k), v |-> vals[i].v]]
    IN  SelectSeq(pre, LAMBDA it : it.k # "juju_unit")

\* AggregatorTopology.as_promql_label_dict without the cut of the uuid
AggregatorLabelDictFullUuid(t) ==
    LET vals == as_dict(t, EmptyDict)
    IN  [i \in 1 .. Len(vals) |-> [k |-> JujuKey(vals[i].k), v |-> vals[i].v]]

\* AggregatorTopology.as_promql_label_dict: juju_unit is kept, the uuid is cut
AggregatorLabelDict(t) ==
    LET vals == as_dict(t, EmptyDict)
    IN  [i \in 1 .. Len(vals) |->
            [k |-> JujuKey(vals[i].k),
             v |-> IF vals[i].k = "model_uuid"
                   THEN Prefix(vals[i].v, UuidPrefixLen) ELSE vals[i].v]]

\* the ordered dict as a plain dict
ItemsToDict(items) ==
    [key \in {items[i].k : i \in 1 .. Len(items)} |->
        (CHOOSE it \in {items[i] : i \in 1 .. Len(items)} : it.k = key).v]

\* "_".join(parts)
RECURSIVE JoinUnderscore(_)
JoinUnderscore(parts) ==
    IF parts = <<>> THEN <<>>
    ELSE IF Len(parts) = 1 THEN parts[1]
    ELSE parts[1] \o <<"_">> \o JoinUnderscore(Tail(parts))

\* s.replace("/", "_")
ReplaceSlash(s) == [i \in 1 .. Len(s) |-> IF s[i] = "/" THEN "_" ELSE s[i]]

\* JujuTopology.identifier, over the label dict of the topology's class
IdentifierOf(labelItems) ==
    ReplaceSlash(JoinUnderscore([i \in 1 .. Len(labelItems) |-> labelItems[i].v]))

ProviderIdentifier(t) == IdentifierOf(ProviderLabelDict(t))
AggregatorIdentifier(t) == IdentifierOf(AggregatorLabelDict(t))

(***************************************************************************)
(* MetricsEndpointAggregator: pure parts                                   *)
(***************************************************************************)
JujuText == <<"j", "u", "j", "u">>
ScrapeSuffix == <<"p", "r", "o", "m", "e", "t", "h", "e", "u", "s", "_",
                  "s", "c", "r", "a", "p", "e">>
RulesSuffix == <<"a", "l", "e", "r", "t", "_", "r", "u", "l", "e", "s">>

\* _job_name: "juju_{}_{}_{}_prometheus_scrape".format(name, uuid[:7], appname)
JobName(appname) ==
    JoinUnderscore(<<JujuText, ModelName, Prefix(ModelUuid, UuidPrefixLen),
                     appname, ScrapeSuffix>>)

\* _group_name: "juju_{}_{}_{}_alert_rules".format(name, uuid[:7], appname)
AggGroupName(appname) ==
    JoinUnderscore(<<JujuText, ModelName, Prefix(ModelUuid, UuidPrefixLen),
                     appname, RulesSuffix>>)

\* a unit databag of a scrape target; <<>> is a key that is not set
NoTargetBag == [hostname |-> <<>>, port |-> <<>>]
CustomPort == <<"9", "1">>
TargetBags(app, u) ==
    {NoTargetBag,
     [hostname |-> HostOf(app, u), port |-> <<>>],
     [hostname |-> HostOf(app, u), port |-> CustomPort]}

\* relation.data[unit].get("port", 80): the int 80, or the text that was set
PortValue(bag) ==
    IF bag.port = <<>> THEN [is_int |-> TRUE, n |-> DefaultPort, s |-> <<>>]
    ELSE [is_int |-> FALSE, n |-> 0, s |-> bag.port]

\* "{}".format(port)
FormatPort(p) == IF p.is_int THEN FormatInt(p.n) ELSE p.s

\* _get_targets: one entry per unit of the relation that has a hostname;
\* us is relation.units, a set, in the order the loop walks it
GetTargets(us, data, app) ==
    LET withHost == SelectSeq(us, LAMBDA u : data[u].hostname # <<>>)
    IN  [i \in 1 .. Len(withHost) |->
            [unit_name |-> UnitName(app, withHost[i]),
             hostname |-> data[withHost[i]].hostname,
             port |-> PortValue(data[withHost[i]])]]

\* the constructor's relabel_instance argument (default True)
RelabelInstance == TRUE

\* _relabel_configs
RelabelConfigs ==
    IF RelabelInstance
    THEN <<[source_labels |-> <<"juju_model", "juju_model_uuid",
                               "juju_application", "juju_unit">>,
            separator |-> "_", target_label |-> "instance", regex |-> "(.*)"]>>
    ELSE <<>>

\* the same element with the uuid cut as the group name has it
StaticConfigShortUuid(target, application_name) ==
    [targets |-> <<target.hostname \o <<":">> \o FormatPort(target.port)>>,
     labels |-> [juju_model |-> ModelName,
                 juju_model_uuid |-> Prefix(ModelUuid, UuidPrefixLen),
                 juju_application |-> application_name,
                 juju_unit |-> target.unit_name,
                 host |-> target.hostname]]

\* one element of the static_configs comprehension of _static_scrape_job
StaticConfig(target, application_name) ==
    [targets |-> <<target.hostname \o <<":">> \o FormatPort(target.port)>>,
     labels |-> [juju_model |-> ModelName,
                 juju_model_uuid |-> ModelUuid,
                 juju_application |-> application_name,
                 juju_unit |-> target.unit_name,
                 host |-> target.hostname]]

\* _static_scrape_job (called without kwargs by the handlers)
StaticScrapeJob(targets, application_name) ==
    [job_name |-> JobName(application_name),
     static_configs |-> [i \in 1 .. Len(targets) |->
                            StaticConfig(targets[i], application_name)],
     relabel_configs |-> RelabelConfigs]

(***************************************************************************)
(* Alert rules of a unit.  The "groups" value of a unit databag is YAML    *)
(* text; the model names four documents and parses them as yaml.safe_load  *)
(* does.                                                                   *)
(***************************************************************************)
AlertA == <<"A">>
ExprUp == <<"u", "p">>
Page == <<"p">>
RuleDocs == {"", "labelled", "unlabelled", "malformed"}

\* yaml.safe_load(doc): None for empty text, a list of rules, or an error
YamlSafeLoad(doc) ==
    CASE doc = "" -> [raises |-> FALSE, value |-> <<>>]
      [] doc = "labelled" ->
            [raises |-> FALSE,
             value |-> <<[alert |-> AlertA, expr |-> ExprUp, has_labels |-> TRUE,
                          labels |-> [severity |-> Page]]>>]
      [] doc = "unlabelled" ->
            [raises |-> FALSE,
             value |-> <<[alert |-> AlertA, expr |-> ExprUp, has_labels |-> FALSE,
                          labels |-> EmptyDict]>>]
      [] doc = "malformed" -> [raises |-> TRUE, value |-> <<>>]

\* _get_alert_rules: unit name -> rules, for the units whose rules are truthy;
\* a YAML error of any unit leaves the method by exception; us is
\* relation.units, a set, in the order the loop walks it
GetAlertRules(us, data, app) ==
    LET loaded == [i \in 1 .. Len(us) |-> YamlSafeLoad(data[us[i]])]
        idx == SelectSeq([i \in 1 .. Len(us) |-> i],
                         LAMBDA i : loaded[i].value # <<>>)
    IN  [raises |-> \E i \in 1 .. Len(us) : loaded[i].raises,
         value |-> [j \in 1 .. Len(idx) |->
                       [unit_name |-> UnitName(app, us[idx[j]]),
                        rules |-> loaded[idx[j]].value]]]

\* rule["labels"].update(AggregatorTopology.create(...).as_promql_label_dict())
LabelRule(rule, appname, unit_name) ==
    [rule EXCEPT !.labels =
        DictUpdate(@, ItemsToDict(AggregatorLabelDict(
            AggregatorTopologyCreate(ModelName, ModelUuid, appname, unit_name))))]

\* _label_alert_rules: rule["labels"] of a rule without labels is a KeyError
LabelAlertRules(unit_rules, appname) ==
    [raises |-> \E i \in 1 .. Len(unit_rules) :
                    \E j \in 1 .. Len(unit_rules[i].rules) :
                        ~unit_rules[i].rules[j].has_labels,
     value |-> Concat([i \in 1 .. Len(unit_rules) |->
                  [j \in 1 .. Len(unit_rules[i].rules) |->
                      LabelRule(unit_rules[i].rules[j], appname,
                                unit_rules[i].unit_name)]])]

(***************************************************************************)
(* MetricsEndpointAggregator: what each handler does to the application    *)
(* databag of one relation towards Prometheus                              *)
(***************************************************************************)
\* relation.data[self._charm.app] before anything was written to it
EmptyBag ==
    [has_jobs |-> FALSE, scrape_jobs |-> <<>>,
     has_rules |-> FALSE, alert_rules |-> [has_groups |-> FALSE, groups |-> <<>>]]

\* MergeJob that forgets the jobs of the other peers
MergeJobAlone(jobs, updated_job) == <<updated_job>>

\* MergeJob without the filter on job_name
MergeJobKeepingStale(jobs, updated_job) == Append(jobs, updated_job)

\* _update_prometheus_jobs, body of the loop: the jobs with another name, then
\* the updated job
MergeJob(jobs, updated_job) ==
    Append(SelectSeq(jobs, LAMBDA job : updated_job.job_name # job.job_name),
           updated_job)

\* MergeGroup that forgets the groups of the other peers
MergeGroupAlone(groups, updated_group) == <<updated_group>>

\* MergeGroup without the filter on the group name
MergeGroupKeepingStale(groups, updated_group) == Append(groups, updated_group)

\* _update_alert_rules, body of the loop
MergeGroup(groups, updated_group) ==
    Append(SelectSeq(groups, LAMBDA group : updated_group.name # group.name),
           updated_group)

\* ConfigsKept that keeps nothing: the job is deleted wholesale
ConfigsKeptNone(changed_job, unit_name) == <<>>

\* ConfigsKept that keeps every group, that of the departing unit included
ConfigsKeptAll(changed_job, unit_name) == changed_job.static_configs

\* _remove_prometheus_jobs: configs_kept
ConfigsKept(changed_job, unit_name) ==
    SelectSeq(changed_job.static_configs,
              LAMBDA config : DictGet(config.labels, "juju_unit", <<>>) # unit_name)

\* _remove_prometheus_jobs, body of the loop; written is FALSE on "continue"
RemoveUnitJobs(jobs, job_name, unit_name) ==
    LET changed == SelectSeq(jobs, LAMBDA j : j.job_name = job_name)
        others == SelectSeq(jobs, LAMBDA job : job.job_name # job_name)
    IN  IF jobs = <<>> \/ changed = <<>>
        THEN [written |-> FALSE, jobs |-> jobs]
        ELSE LET configs_kept == ConfigsKept(changed[1], unit_name)
             IN  [written |-> TRUE,
                  jobs |-> IF configs_kept # <<>>
                           THEN Append(others,
                                  [changed[1] EXCEPT !.static_configs = configs_kept])
                           ELSE others]

\* RulesKept that keeps nothing: the group is deleted wholesale
RulesKeptNone(changed_group, unit_name) == <<>>

\* _remove_alert_rules: rules_kept
RulesKept(changed_group, unit_name) ==
    SelectSeq(changed_group.rules,
              LAMBDA rule : DictGet(rule.labels, "juju_unit", <<>>) # unit_name)

\* _remove_alert_rules, body of the loop; written is FALSE on "continue"
RemoveUnitRules(alert_rules, group_name, unit_name) ==
    LET groups == alert_rules.groups
        changed == SelectSeq(groups, LAMBDA group : group.name = group_name)
        others == SelectSeq(groups, LAMBDA group : group.name # group_name)
    IN  IF ~alert_rules.has_groups \/ groups = <<>> \/ changed = <<>>
        THEN [written |-> FALSE, alert_rules |-> alert_rules]
        ELSE LET rules_kept == RulesKept(changed[1], unit_name)
                 left == IF rules_kept # <<>>
                         THEN Append(others, [changed[1] EXCEPT !.rules = rules_kept])
                         ELSE others
             IN  [written |-> TRUE,
                  alert_rules |-> IF left # <<>>
                                  THEN [has_groups |-> TRUE, groups |-> left]
                                  ELSE [has_groups |-> FALSE, groups |-> <<>>]]

(***************************************************************************)
(* MetricsEndpointConsumer: pure parts.  A job, a static config and a      *)
(* label set are Python dicts, here functions from their keys.             *)
(***************************************************************************)
\* s.split(sep) for a one-character separator
RECURSIVE Split(_, _)
Split(s, sep) ==
    IF \A i \in 1 .. Len(s) : s[i] # sep THEN <<s>>
    ELSE LET k == CHOOSE i \in 1 .. Len(s) :
                      s[i] = sep /\ \A j \in 1 .. (i - 1) : s[j] # sep
         IN  <<SubSeq(s, 1, k - 1)>> \o Split(SubSeq(s, k + 1, Len(s)), sep)

\* the characters of str.isspace() that a string of a module can hold:
\* blank, tab, newline, carriage return, form feed, and written as they are
\* U+000B, U+001C, U+001D, U+001E, U+001F, U+0085, U+00A0 and U+1680; the
\* others (U+2000 to U+200A, U+2028, U+2029, U+202F, U+205F, U+3000) cannot
\* be written in a string
Whitespace ==
    {" ", "\t", "\n", "\r", "\f",
     "", "", "", "", "", "", " ", " "}

\* s.strip()
RECURSIVE Strip(_)
Strip(s) ==
    IF s = <<>> THEN s
    ELSE IF Head(s) \in Whitespace THEN Strip(Tail(s))
    ELSE IF s[Len(s)] \in Whitespace THEN Strip(SubSeq(s, 1, Len(s) - 1))
    ELSE s

\* the dict d cut down to the keys of ks
DictRestrict(d, ks) == [k \in (DOMAIN d) \cap ks |-> d[k]]

ALLOWED_KEYS ==
    {"job_name", "metrics_path", "static_configs", "scrape_interval",
     "scrape_timeout", "proxy_url", "relabel_configs", "metrics_relabel_configs",
     "sample_limit", "label_limit", "label_name_length_limit",
     "label_value_lenght_limit"}

MetricsText == <<"/", "m", "e", "t", "r", "i", "c", "s">>
WildcardDefault == <<"*", ":", "8", "0">>

\* a default job that brings a list of relabel rules of its own
DefaultJobWithRelabelConfigs ==
    [metrics_path |-> MetricsText,
     static_configs |-> <<[targets |-> <<WildcardDefault>>]>>,
     relabel_configs |-> <<>>]

DEFAULT_JOB ==
    [metrics_path |-> MetricsText,
     static_configs |-> <<[targets |-> <<WildcardDefault>>]>>]

\* The namespace of the module as it is now in the process that imported
\* it: [DEFAULT_JOB, ALLOWED_KEYS], the objects the two names are bound to.
\* The definitions above are what the assignments at import bind them to.
VARIABLE module_globals

\* the module as imported
ModuleLoaded ==
    module_globals = [DEFAULT_JOB |-> DEFAULT_JOB, ALLOWED_KEYS |-> ALLOWED_KEYS]

\* _sanitize_scrape_configuration that lets every key of the job through
SanitizeKeepingAll(module, job) == DictUpdate(module.DEFAULT_JOB, job)

\* _sanitize_scrape_configuration; module is the namespace of the module as
\* it is when the function is called
SanitizeScrapeConfiguration(module, job) ==
    DictUpdate(module.DEFAULT_JOB, DictRestrict(job, module.ALLOWED_KEYS))

\* the keys of the sanitized job whose values are the very objects
\* DEFAULT_JOB holds: DEFAULT_JOB.copy() is shallow and update() rebinds
\* only the keys the job brings
SharedWithDefault(module, job) ==
    (DOMAIN module.DEFAULT_JOB) \ ((DOMAIN job) \cap module.ALLOWED_KEYS)

\* JujuTopology.from_relation_data
FromRelationData(data) ==
    Topology(data["model"], data["model_uuid"], data["application"],
             DictGet(data, "unit", <<>>), DictGet(data, "charm_name", <<>>))

\* ProviderTopology.scrape_identifier without the juju_ in front
ScrapeIdentifierWithoutJuju(t) ==
    ProviderIdentifier(t) \o <<"_">> \o ScrapeSuffix

\* ProviderTopology.scrape_identifier
ScrapeIdentifier(t) ==
    JujuText \o <<"_">> \o ProviderIdentifier(t) \o <<"_">> \o ScrapeSuffix

\* _set_juju_labels with the update the other way round: the labels of the
\* peer over those of the topology
SetJujuLabelsUserWins(labels, scrape_metadata) ==
    DictUpdate(ItemsToDict(ProviderLabelDict(FromRelationData(scrape_metadata))), labels)

\* _set_juju_labels
SetJujuLabels(labels, scrape_metadata) ==
    DictUpdate(labels, ItemsToDict(ProviderLabelDict(FromRelationData(scrape_metadata))))

\* _labeled_unitless_config
LabeledUnitlessConfig(targets, labels, scrape_metadata) ==
    [targets |-> targets, labels |-> SetJujuLabels(labels, scrape_metadata)]

\* "{}:{}".format(host_address, port)
HostPort(host_address, port) == host_address \o <<":">> \o port

\* _labeled_unit_config that leaves juju_unit as _set_juju_labels returned it
LabeledUnitConfigWithoutUnit(unit_name, host_address, ports, labels, scrape_metadata) ==
    [labels |-> SetJujuLabels(labels, scrape_metadata),
     targets |-> IF ports # <<>>
                 THEN [i \in 1 .. Len(ports) |-> HostPort(host_address, ports[i])]
                 ELSE <<host_address>>]

\* _labeled_unit_config
LabeledUnitConfig(unit_name, host_address, ports, labels, scrape_metadata) ==
    [labels |-> DictUpdate(SetJujuLabels(labels, scrape_metadata),
                           [juju_unit |-> unit_name]),
     targets |-> IF ports # <<>>
                 THEN [i \in 1 .. Len(ports) |-> HostPort(host_address, ports[i])]
                 ELSE <<host_address>>]

\* host, port = target.split(":") ends by ValueError unless there are two parts
TargetRaises(target) == Len(Split(target, ":")) # 2

\* host.strip() == "*"
IsWildcard(target) == Strip(Split(target, ":")[1]) = <<"*">>

\* ports: port.strip() of every wildcard target, in order
WildcardPorts(all_targets) ==
    LET wild == SelectSeq(all_targets, LAMBDA target : IsWildcard(target))
    IN  [i \in 1 .. Len(wild) |-> Strip(Split(wild[i], ":")[2])]

\* unitless_targets: the other targets, as they were written
UnitlessTargets(all_targets) ==
    SelectSeq(all_targets, LAMBDA target : ~IsWildcard(target))

\* instance_relabel_config with juju_unit among the source labels in any case
InstanceRelabelConfigWithUnit(with_unit) ==
    [source_labels |-> <<"juju_model", "juju_model_uuid", "juju_application",
                         "juju_unit">>,
     separator |-> "_",
     target_label |-> "instance",
     regex |-> "(.*)"]

\* instance_relabel_config once the loops have run
InstanceRelabelConfig(with_unit) ==
    [source_labels |-> <<"juju_model", "juju_model_uuid", "juju_application">>
                          \o (IF with_unit THEN <<"juju_unit">> ELSE <<>>),
     separator |-> "_",
     target_label |-> "instance",
     regex |-> "(.*)"]

\* _labeled_static_job_config, body of the loop over static_configs: the
\* groups one static config contributes; hosts is a sequence of
\* [unit_name, address] in the order of the dict
LabeledStaticConfigs(static_config, hosts, scrape_metadata) ==
    LET labels == DictGet(static_config, "labels", EmptyDict)
        all_targets == DictGet(static_config, "targets", <<>>)
        ports == WildcardPorts(all_targets)
        unitless_targets == UnitlessTargets(all_targets)
    IN  (IF unitless_targets # <<>>
         THEN <<LabeledUnitlessConfig(unitless_targets, labels, scrape_metadata)>>
         ELSE <<>>)
        \o [h \in 1 .. Len(hosts) |->
               LabeledUnitConfig(hosts[h].unit_name, hosts[h].address, ports,
                                 labels, scrape_metadata)]

\* whether _labeled_static_job_config ends by ValueError
LabeledJobRaises(job) ==
    \E i \in 1 .. Len(job["static_configs"]) :
        LET all_targets == DictGet(job["static_configs"][i], "targets", <<>>)
        IN  \E j \in 1 .. Len(all_targets) : TargetRaises(all_targets[j])

\* LabeledJobName that keeps the declared name and forgets the prefix
LabeledJobNameBare(job, job_name_prefix) ==
    LET name == DictGet(job, "job_name", <<>>)
    IN  IF name # <<>> THEN name ELSE job_name_prefix

\* "{}_{}".format(job_name_prefix, name) if name else job_name_prefix
LabeledJobName(job, job_name_prefix) ==
    LET name == DictGet(job, "job_name", <<>>)
    IN  IF name # <<>> THEN job_name_prefix \o <<"_">> \o name ELSE job_name_prefix

\* _labeled_static_job_config, for a job on which it does not raise
LabeledStaticJobConfig(job, job_name_prefix, hosts, scrape_metadata) ==
    LET static_configs == job["static_configs"]
    IN  DictUpdate(job,
          [job_name |-> LabeledJobName(job, job_name_prefix),
           static_configs |->
               Concat([i \in 1 .. Len(static_configs) |->
                          LabeledStaticConfigs(static_configs[i], hosts,
                                               scrape_metadata)]),
           relabel_configs |->
               Append(DictGet(job, "relabel_configs", <<>>),
                      InstanceRelabelConfig(static_configs # <<>> /\ hosts # <<>>))])

\* hosts.update({unit_name: unit_address})
RECURSIVE HostsUpdate(_, _)
HostsUpdate(hosts, entry) ==
    IF hosts = <<>> THEN <<entry>>
    ELSE IF Head(hosts).unit_name = entry.unit_name THEN <<entry>> \o Tail(hosts)
    ELSE <<Head(hosts)>> \o HostsUpdate(Tail(hosts), entry)

\* a or b, of two texts
TextOr(a, b) == IF a # <<>> THEN a ELSE b

\* _relation_hosts: us is relation.units in iteration order
RECURSIVE RelationHostsOver(_, _, _)
RelationHostsOver(us, udata, app) ==
    IF us = <<>> THEN <<>>
    ELSE LET before == RelationHostsOver(SubSeq(us, 1, Len(us) - 1), udata, app)
             bag == udata[us[Len(us)]]
             unit_name == TextOr(DictGet(bag, "prometheus_scrape_unit_name", <<>>),
                                 UnitName(app, us[Len(us)]))
             unit_address == TextOr(DictGet(bag, "prometheus_scrape_unit_address", <<>>),
                                    DictGet(bag, "prometheus_scrape_host", <<>>))
         IN  IF unit_address # <<>>
             THEN HostsUpdate(before, [unit_name |-> unit_name, address |-> unit_address])
             ELSE before

\* _relation_hosts: relation.walk is relation.units, a set, in the order in
\* which the set of this process is walked
RelationHosts(relation) ==
    RelationHostsOver(relation.walk, relation.udata, relation.app)

\* the keys of the sanitized job whose value would be changed in place had
\* labeled_job["static_configs"] not been bound to a new list first
InPlaceKeysWithStaticConfigs(job) == {"relabel_configs", "static_configs"} \cap DOMAIN job

\* the keys of the sanitized job whose value _labeled_static_job_config
\* changes in place: relabel_configs.append(...) acts on the list
\* job.get("relabel_configs", []) returned, the job's own when it has the
\* key; every other write is to labeled_job, a copy, or to a new list
InPlaceKeys(job) == {"relabel_configs"} \cap DOMAIN job

\* DEFAULT_JOB after _labeled_static_job_config has returned labeled: a value
\* changed in place is DEFAULT_JOB's own when the sanitized job shares it
\* (the keys of touched), and is then the one the labelled job holds
DefaultJobAfterLabeling(default, labeled, touched) ==
    [k \in DOMAIN default |-> IF k \in touched THEN labeled[k] ELSE default[k]]

\* the jobs of value as a reader sees them when the module is as given:
\* aliased[i] are the keys of value[i] bound to the object DEFAULT_JOB holds
\* under the same key
SeenWith(module, value, aliased) ==
    [i \in 1 .. Len(value) |->
        [k \in DOMAIN value[i] |->
            IF k \in aliased[i] THEN module.DEFAULT_JOB[k] ELSE value[i][k]]]

\* nothing labelled yet, the module being as given
NothingLabeled(module) ==
    [raises |-> FALSE, value |-> <<>>, aliased |-> <<>>, module |-> module]

\* scrape_configs.append(labeled): the jobs labelled so far with one more,
\* touched being its keys whose value, changed in place, is DEFAULT_JOB's own
WithLabeled(done, labeled, touched) ==
    [raises |-> FALSE,
     value |-> Append(done.value, labeled),
     aliased |-> Append(done.aliased, touched),
     module |-> [done.module EXCEPT !.DEFAULT_JOB =
                    DefaultJobAfterLabeling(@, labeled, touched)]]

\* _static_scrape_config, the loop over scrape_jobs: each job is sanitized
\* with the module as the jobs before it left it and labelled; the loop
\* ends with the first job on which _labeled_static_job_config raises
RECURSIVE LabeledJobConfigs(_, _, _, _, _)
LabeledJobConfigs(done, scrape_jobs, job_name_prefix, hosts, scrape_metadata) ==
    IF scrape_jobs = <<>> THEN done
    ELSE IF LabeledJobRaises(SanitizeScrapeConfiguration(done.module, Head(scrape_jobs)))
    THEN [raises |-> TRUE, value |-> <<>>, aliased |-> <<>>, module |-> done.module]
    ELSE LabeledJobConfigs(
             WithLabeled(done,
                 LabeledStaticJobConfig(
                     SanitizeScrapeConfiguration(done.module, Head(scrape_jobs)),
                     job_name_prefix, hosts, scrape_metadata),
                 InPlaceKeys(SanitizeScrapeConfiguration(done.module, Head(scrape_jobs)))
                     \cap SharedWithDefault(done.module, Head(scrape_jobs))),
             Tail(scrape_jobs), job_name_prefix, hosts, scrape_metadata)

\* the jobs labelled as the caller holds them when the call returns: a value
\* shared with DEFAULT_JOB is read as DEFAULT_JOB holds it by then
Returned(done) ==
    [done EXCEPT !.value = SeenWith(done.module, @, done.aliased)]

\* _static_scrape_config without the return for an empty scrape_metadata:
\* from_relation_data raises KeyError
StaticScrapeConfigRequiringMetadata(module, relation) ==
    IF relation.units = {} \/ relation.scrape_jobs = <<>>
    THEN NothingLabeled(module)
    ELSE IF relation.scrape_metadata = EmptyDict
    THEN [raises |-> TRUE, value |-> <<>>, aliased |-> <<>>, module |-> module]
    ELSE Returned(LabeledJobConfigs(
                      NothingLabeled(module), relation.scrape_jobs,
                      ScrapeIdentifier(FromRelationData(relation.scrape_metadata)),
                      RelationHosts(relation), relation.scrape_metadata))

\* _static_scrape_config: the jobs of one relation as they are when the
\* method returns, or the exception, and the module as the method leaves it
StaticScrapeConfig(module, relation) ==
    IF relation.units = {} \/ relation.scrape_jobs = <<>>
    THEN NothingLabeled(module)
    ELSE IF relation.scrape_metadata = EmptyDict
    THEN [raises |-> FALSE, value |-> relation.scrape_jobs,
          aliased |-> [i \in 1 .. Len(relation.scrape_jobs) |-> {}],
          module |-> module]
    ELSE Returned(LabeledJobConfigs(
                      NothingLabeled(module), relation.scrape_jobs,
                      ScrapeIdentifier(FromRelationData(relation.scrape_metadata)),
                      RelationHosts(relation), relation.scrape_metadata))

\* scrape_jobs.extend(static_scrape_jobs): the jobs of the relations before
\* with those one more relation gave, or the exception it raised
JobsExtended(done, one) ==
    [raises |-> one.raises,
     value |-> IF one.raises THEN <<>> ELSE done.value \o one.value,
     aliased |-> IF one.raises THEN <<>> ELSE done.aliased \o one.aliased,
     module |-> one.module]

\* MetricsEndpointConsumer.jobs, the loop over the relations: the jobs of
\* each relation are labelled with the module as the relations before it
\* left it; the loop ends with the first relation whose labelling raises
RECURSIVE JobsOver(_, _)
JobsOver(done, rels) ==
    IF rels = <<>> \/ done.raises THEN done
    ELSE JobsOver(JobsExtended(done, StaticScrapeConfig(done.module, Head(rels))),
                  Tail(rels))

\* MetricsEndpointConsumer.jobs: rels is model.relations[name] in order; the
\* jobs are those the caller holds when the method returns
ConsumerJobs(module, rels) == Returned(JobsOver(NothingLabeled(module), rels))

(***************************************************************************)
(* AlertRules: pure parts.  A path is a sequence of names, each a text.  A *)
(* file is what yaml.safe_load makes of it: [parses |-> FALSE] when the    *)
(* load raises, or [parses |-> TRUE, doc |-> d], d a Python value          *)
(* tagged with its type.  A dict is a function from keys, a list a         *)
(* sequence of Python values, a str a text.  An expr is a                  *)
(* sequence of pieces of text, the placeholder JujuTopology.STUB being one *)
(* piece.                                                                  *)
(***************************************************************************)
PyNone == [type |-> "NoneType"]
PyInt(n) == [type |-> "int", int |-> n]
PyStr(s) == [type |-> "str", str |-> s]
PyList(items) == [type |-> "list", list |-> items]
PyDict(d) == [type |-> "dict", dict |-> d]

GroupsText == <<"g", "r", "o", "u", "p", "s">>
AlertText == <<"a", "l", "e", "r", "t">>
ExprText == <<"e", "x", "p", "r">>
AlertsText == <<"a", "l", "e", "r", "t", "s">>
LabelsText == <<"l", "a", "b", "e", "l", "s">>
RuleSuffixes == {<<".", "r", "u", "l", "e">>, <<".", "r", "u", "l", "e", "s">>}
STUB == "%%juju_topology%%"

\* the text of a key of the library
KeyText(key) ==
    CASE key = "groups" -> GroupsText
      [] key = "alert" -> AlertText
      [] key = "expr" -> ExprText
      [] key = "labels" -> LabelsText

\* needle in s, of two texts
IsSubstring(needle, s) ==
    \E i \in 1 .. (Len(s) - Len(needle) + 1) :
        SubSeq(s, i, i + Len(needle) - 1) = needle

\* key in doc raises TypeError when doc is not a container
InRaises(doc) == doc.type \in {"NoneType", "int"}

\* key in doc: a key of a dict, an item of a list, a substring of a str
In(key, doc) ==
    CASE doc.type = "dict" -> key \in DOMAIN doc.dict
      [] doc.type = "list" -> \E i \in 1 .. Len(doc.list) :
                                  /\ doc.list[i].type = "str"
                                  /\ doc.list[i].str = KeyText(key)
      [] doc.type = "str" -> IsSubstring(KeyText(key), doc.str)

\* _is_official_alert_rule_format
IsOfficialAlertRuleFormat(rules_dict) == In("groups", rules_dict)

\* set(doc) raises TypeError when doc is not iterable or has an unhashable item
SetRaises(doc) ==
    \/ doc.type \in {"NoneType", "int"}
    \/ /\ doc.type = "list"
       /\ \E i \in 1 .. Len(doc.list) : doc.list[i].type \in {"dict", "list"}

\* _is_single_alert_rule_format: set(rules_dict) >= {"alert", "expr"}; the
\* set of a str holds its characters
IsSingleAlertRuleFormat(rules_dict) ==
    CASE rules_dict.type = "dict" -> {"alert", "expr"} \subseteq DOMAIN rules_dict.dict
      [] rules_dict.type = "list" ->
             \A key \in {"alert", "expr"} : In(key, rules_dict)
      [] rules_dict.type = "str" -> FALSE

\* index of the last "." of a name, 0 if there is none
LastDot(name) ==
    LET dots == {i \in 1 .. Len(name) : name[i] = "."}
    IN  IF dots = {} THEN 0 ELSE CHOOSE i \in dots : \A j \in dots : j <= i

\* PurePath.suffix: from the last dot, unless the name starts or ends with it
PathSuffix(path) ==
    LET name == path[Len(path)]
        i == LastDot(name)
    IN  IF i > 1 /\ i < Len(name) THEN SubSeq(name, i, Len(name)) ELSE <<>>

\* PurePath.stem
PathStem(path) ==
    LET name == path[Len(path)]
        i == LastDot(name)
    IN  IF i > 1 /\ i < Len(name) THEN SubSeq(name, 1, i - 1) ELSE name

\* PurePath.parent and os.path.dirname
PathParent(path) == SubSeq(path, 1, Len(path) - 1)

\* os.path.relpath(dir, root_path) with "." made "" and os.path.sep made "_",
\* for a dir below root_path
RelPath(dir, root_path) ==
    JoinUnderscore(SubSeq(dir, Len(root_path) + 1, Len(dir)))

\* promql_labels: ", ".join('{}="{}"'.format(key, value) ...)
RECURSIVE PromqlLabels(_)
PromqlLabels(items) ==
    IF items = <<>> THEN <<>>
    ELSE <<items[1].k, "=", "\"">> \o items[1].v \o <<"\"">>
         \o (IF Len(items) > 1 THEN <<", ">> ELSE <<>>)
         \o PromqlLabels(Tail(items))

\* JujuTopology.render: template.replace(STUB, self.promql_labels)
Render(t, template) ==
    Concat([i \in 1 .. Len(template) |->
               IF template[i] = STUB THEN PromqlLabels(ProviderLabelDict(t))
               ELSE <<template[i]>>])

\* _group_name that leaves the relative path out
GroupNameWithoutPath(has_topology, t, root_path, file_path, group_name) ==
    LET group_name_parts ==
            (IF has_topology THEN <<ProviderIdentifier(t)>> ELSE <<>>)
            \o <<group_name, AlertsText>>
    IN  JoinUnderscore(SelectSeq(group_name_parts, LAMBDA part : part # <<>>))

\* AlertRules._group_name
GroupName(has_topology, t, root_path, file_path, group_name) ==
    LET rel_path == RelPath(PathParent(file_path), root_path)
        group_name_parts ==
            (IF has_topology THEN <<ProviderIdentifier(t)>> ELSE <<>>)
            \o <<rel_path, group_name, AlertsText>>
    IN  JoinUnderscore(SelectSeq(group_name_parts, LAMBDA part : part # <<>>))

\* _from_file, the body of the loop over alert_group["rules"]
AnnotateRule(has_topology, t, alert_rule) ==
    LET labels == DictGet(alert_rule, "labels", EmptyDict)
    IN  IF has_topology
        THEN DictUpdate(alert_rule,
                 [labels |-> DictUpdate(labels, ItemsToDict(ProviderLabelDict(t))),
                  expr |-> Render(t, alert_rule["expr"])])
        ELSE DictUpdate(alert_rule, [labels |-> labels])

\* _from_file, the body of the loop over alert_groups: name and rules are
\* rebound in the group, whose other keys stay
AnnotateGroup(has_topology, t, root_path, file_path, alert_group) ==
    DictUpdate(alert_group,
        [name |-> GroupName(has_topology, t, root_path, file_path, alert_group["name"]),
         rules |-> [i \in 1 .. Len(alert_group["rules"]) |->
                       AnnotateRule(has_topology, t, alert_group["rules"][i])]])

\* an except branch of _from_file that raises again
ExceptBranchRaising == [raises |-> TRUE, value |-> <<>>]

\* _from_file, the except branch around yaml.safe_load: log, return []
ExceptBranch == [raises |-> FALSE, value |-> <<>>]

\* AlertRules._from_file: the groups of one file, or the exception.  Only
\* yaml.safe_load is inside the try block.  "groups" in rule_file raises for
\* None and a number; rule_file["groups"] raises for a list and a str;
\* set(rule_file) raises for a list with a dict; and a list with the items
\* "alert" and "expr" passes for a single rule: it raises when it is given
\* labels, which is unless it holds the item "labels" and there is no
\* topology, and then the rule of the group is the list as it is.
FromFile(has_topology, t, root_path, file_path, file) ==
    IF ~file.parses THEN ExceptBranch
    ELSE LET rule_file == file.doc
         IN  IF InRaises(rule_file) THEN [raises |-> TRUE, value |-> <<>>]
             ELSE IF IsOfficialAlertRuleFormat(rule_file)
             THEN IF rule_file.type # "dict" THEN [raises |-> TRUE, value |-> <<>>]
                  ELSE [raises |-> FALSE,
                        value |-> [i \in 1 .. Len(rule_file.dict["groups"]) |->
                                      AnnotateGroup(has_topology, t, root_path, file_path,
                                                    rule_file.dict["groups"][i])]]
             ELSE IF SetRaises(rule_file) THEN [raises |-> TRUE, value |-> <<>>]
             ELSE IF IsSingleAlertRuleFormat(rule_file)
             THEN IF rule_file.type # "dict"
                  THEN IF has_topology \/ ~In("labels", rule_file)
                       THEN [raises |-> TRUE, value |-> <<>>]
                       ELSE [raises |-> FALSE,
                             value |-> <<[name |-> GroupName(has_topology, t, root_path,
                                                             file_path,
                                                             PathStem(file_path)),
                                          rules |-> <<rule_file>>]>>]
                  ELSE [raises |-> FALSE,
                        value |-> <<AnnotateGroup(has_topology, t, root_path, file_path,
                                       [name |-> PathStem(file_path),
                                        rules |-> <<rule_file.dict>>])>>]
             ELSE [raises |-> FALSE, value |-> <<>>]

\* _multi_suffix_glob: the files below dir_path, or in it when not
\* recursive, with one of the suffixes; files is the set of file paths
MultiSuffixGlob(files, dir_path, suffixes, recursive) ==
    {f \in files :
        /\ Len(f) > Len(dir_path)
        /\ SubSeq(f, 1, Len(dir_path)) = dir_path
        /\ recursive \/ Len(f) = Len(dir_path) + 1
        /\ PathSuffix(f) \in suffixes}

\* the orders in which a glob may yield a set of paths
GlobOrders(S) ==
    {order \in [1 .. Cardinality(S) -> S] :
        \A i, j \in 1 .. Cardinality(S) : i # j => order[i] # order[j]}

\* _from_dir, after the loop: the groups of the files one after the other,
\* or the exception of the first file that raised
GroupsOfFiles(each) ==
    IF \E i \in 1 .. Len(each) : each[i].raises
    THEN [raises |-> TRUE, value |-> <<>>]
    ELSE [raises |-> FALSE, value |-> Concat([i \in 1 .. Len(each) |-> each[i].value])]

\* AlertRules._from_dir: order is the glob's result; the groups of each file
\* are appended as they are
FromDir(has_topology, t, dir_path, order, contents) ==
    GroupsOfFiles([i \in 1 .. Len(order) |->
                      FromFile(has_topology, t, dir_path, order[i], contents[order[i]])])

\* AlertRules.add_path, what it finds at path: dirs are the directories and
\* contents the files that exist; the groups to extend self.alert_groups
\* with, or the exception; order is the glob's result when path is a directory
AddPathFinds(has_topology, t, path, order, dirs, contents) ==
    IF path \in dirs
    THEN FromDir(has_topology, t, path, order, contents)
    ELSE IF path \in DOMAIN contents
    THEN FromFile(has_topology, t, PathParent(path), path, contents[path])
    ELSE [raises |-> FALSE, value |-> <<>>]

(***************************************************************************)
(* State                                                                   *)
(***************************************************************************)
VARIABLES
    tapps,   \* applications related over the scrape_target relation
    rapps,   \* applications related over the alert_rules relation
    tunits,  \* tunits[app]: relation.units of the scrape_target relation
    tdata,   \* tdata[app][u]: databag of unit u in that relation
    runits,  \* runits[app]: relation.units of the alert_rules relation
    rdata,   \* rdata[app][u]: the "groups" value of unit u's databag
    drels,   \* relations towards Prometheus that the deployment can establish
    down,    \* self.model.relations[prometheus]: the relations that exist
    joined,  \* the relations of down whose relation_joined has been handled
    pub,     \* pub[r]: relation.data[self._charm.app] of relation r
    last,    \* the kind of notification handled last
    topos,   \* the topology objects constructed, with the identifiers read
    prels,   \* MetricsEndpointConsumer: prels[r] is the view of provider relation r
    cjobs,   \* MetricsEndpointConsumer: what the last call of jobs() gave
    rfiles,  \* AlertRules: rfiles[f] is the content of rule file f on disk
    alert_groups,  \* AlertRules: self.alert_groups
    radds,   \* AlertRules: the add_path calls made, with how each ended
    transformer,  \* PromqlTransformer: _path, _disabled and the lookups made
    resource,     \* whether the promql-transform resource can be fetched
    applying,     \* the call of apply_label_matchers: its position and rules
    meta,    \* charm.meta.relations: the relations of metadata.yaml
    containers,  \* charm.unit.containers: the names of the unit's containers
    objs,    \* the constructions of library objects, with how each ended
    creads,  \* the calls of jobs() made since the relation data last changed
    palerts, \* palerts[r]: alert_rules of the application databag of relation r
    calerts, \* the calls of alerts() since the relation data last changed, and
             \* what the last gave
    pdata    \* MetricsEndpointProvider: its unit, files and relation databags

aggvars == <<tapps, rapps, drels, tunits, tdata, runits, rdata, down, joined, pub, last>>
consvars == <<prels, cjobs, creads, palerts, calerts>>
rulevars == <<rfiles, alert_groups, radds>>
transvars == <<transformer, resource, applying>>
setupvars == <<meta, containers, objs>>
morevars == <<transformer, resource, applying, meta, containers, objs, pdata,
              module_globals>>
vars == <<tapps, rapps, drels, tunits, tdata, runits, rdata, down, joined, pub, last,
          topos, prels, cjobs, creads, palerts, calerts, rfiles, alert_groups, radds,
          transformer, resource, applying, meta, containers, objs, pdata,
          module_globals>>

\* no MetricsEndpointConsumer is constructed
ConsumerIdle ==
    /\ prels = <<>> /\ cjobs = <<>> /\ creads = 0
    /\ palerts = <<>> /\ calerts = <<>>

\* no AlertRules object is constructed
RulesIdle == rfiles = <<>> /\ alert_groups = <<>> /\ radds = <<>>

\* no PromqlTransformer is constructed
TransformerIdle == transformer = <<>> /\ resource = <<>> /\ applying = <<>>

\* no construction is attempted
SetupIdle == meta = <<>> /\ containers = {} /\ objs = <<>>

\* no MetricsEndpointProvider is constructed
ProviderIdle == pdata = <<>>

MoreIdle == TransformerIdle /\ SetupIdle /\ ProviderIdle /\ ModuleLoaded

\* The deployments explored: which applications are related over which
\* endpoint, and which relations towards Prometheus can be established.
Deployments ==
    {[t |-> Apps, r |-> {}, d |-> {1}],
     [t |-> {AppA}, r |-> {}, d |-> DownRels],
     [t |-> {}, r |-> Apps, d |-> {1}],
     [t |-> {}, r |-> {AppA}, d |-> DownRels],
     [t |-> {AppA}, r |-> {AppB}, d |-> {1}],
     [t |-> {AppA}, r |-> {AppA}, d |-> {1}]}

Init ==
    /\ \E d \in Deployments : tapps = d.t /\ rapps = d.r /\ drels = d.d
    /\ tunits = [a \in Apps |-> {}]
    /\ tdata = [a \in Apps |-> [u \in UnitIdx |-> NoTargetBag]]
    /\ runits = [a \in Apps |-> {}]
    /\ rdata = [a \in Apps |-> [u \in UnitIdx |-> ""]]
    /\ down = {}
    /\ joined = {}
    /\ pub = [r \in DownRels |-> EmptyBag]
    /\ last = "init"
    /\ topos = <<>>
    /\ ConsumerIdle
    /\ RulesIdle
    /\ MoreIdle

\* the relations of an endpoint, in the order model.relations lists them
RelationsOf(apps) == SelectSeq(AppOrder, LAMBDA a : a \in apps)

(***************************************************************************)
(* Handlers, as functions of the relation view                             *)
(***************************************************************************)
\* _update_prometheus_jobs
UpdatePrometheusJobs(p, ds, targets, app) ==
    IF targets = <<>> THEN p
    ELSE LET updated_job == StaticScrapeJob(targets, app)
         IN  [r \in DownRels |->
                IF r \in ds
                THEN [p[r] EXCEPT !.has_jobs = TRUE,
                                  !.scrape_jobs = MergeJob(@, updated_job)]
                ELSE p[r]]

\* _remove_prometheus_jobs
RemovePrometheusJobs(p, ds, app, u) ==
    [r \in DownRels |->
        LET res == RemoveUnitJobs(p[r].scrape_jobs, JobName(app), UnitName(app, u))
        IN  IF r \in ds /\ res.written
            THEN [p[r] EXCEPT !.has_jobs = TRUE, !.scrape_jobs = res.jobs]
            ELSE p[r]]

\* the group _update_alert_rules and _set_prometheus_data build for a relation
LabelledGroup(unit_rules, appname) ==
    LET labelled == LabelAlertRules(unit_rules, appname)
    IN  [raises |-> labelled.raises,
         group |-> [name |-> AggGroupName(appname), rules |-> labelled.value]]

\* _update_alert_rules; an exception ends the handler before anything is written
UpdateAlertRules(p, ds, loaded, app) ==
    IF loaded.raises \/ loaded.value = <<>> THEN p
    ELSE LET updated == LabelledGroup(loaded.value, app)
         IN  IF updated.raises THEN p
             ELSE [r \in DownRels |->
                     IF r \in ds
                     THEN [p[r] EXCEPT
                             !.has_rules = TRUE,
                             !.alert_rules =
                                 [has_groups |-> TRUE,
                                  groups |-> MergeGroup(@.groups, updated.group)]]
                     ELSE p[r]]

\* whether _update_alert_rules ends by exception
UpdateAlertRulesRaises(loaded, app) ==
    \/ loaded.raises
    \/ loaded.value # <<>> /\ LabelledGroup(loaded.value, app).raises

\* _remove_alert_rules
RemoveAlertRules(p, ds, app, u) ==
    [r \in DownRels |->
        LET res == RemoveUnitRules(p[r].alert_rules, AggGroupName(app),
                                   UnitName(app, u))
        IN  IF r \in ds /\ res.written
            THEN [p[r] EXCEPT !.has_rules = TRUE, !.alert_rules = res.alert_rules]
            ELSE p[r]]

\* the orders in which a handler may walk relation.units of every relation of
\* an endpoint: us[a] is the set of units of the relation with application a
WalksOf(us) ==
    LET orders == [a \in Apps |-> IterationOrders(us[a])]
    IN  {w \in [Apps -> UNION {orders[a] : a \in Apps}] :
            \A a \in Apps : w[a] \in orders[a]}

\* _set_prometheus_data: the jobs list; tu[a] is relation.units as walked
ResyncJobs(ta, tu, td) ==
    LET rels == RelationsOf(ta)
        with == SelectSeq(rels, LAMBDA a : GetTargets(tu[a], td[a], a) # <<>>)
    IN  [i \in 1 .. Len(with) |->
            StaticScrapeJob(GetTargets(tu[with[i]], td[with[i]], with[i]), with[i])]

\* _set_prometheus_data: the groups list, or the exception that ends the
\* handler; ru[a] is relation.units as walked
ResyncGroups(ra, ru, rd) ==
    LET rels == RelationsOf(ra)
        loaded == [i \in 1 .. Len(rels) |->
                      GetAlertRules(ru[rels[i]], rd[rels[i]], rels[i])]
        idx == SelectSeq([i \in 1 .. Len(rels) |-> i],
                         LAMBDA i : loaded[i].value # <<>>)
        built == [j \in 1 .. Len(idx) |->
                     LabelledGroup(loaded[idx[j]].value, rels[idx[j]])]
    IN  [raises |-> \/ \E i \in 1 .. Len(rels) : loaded[i].raises
                    \/ \E j \in 1 .. Len(idx) : built[j].raises,
         groups |-> [j \in 1 .. Len(idx) |-> built[j].group]]

\* _set_prometheus_data: both keys of the joining relation are written at the
\* end, so an exception leaves the databag as it was
SetPrometheusData(p, rel, ta, tu, td, ra, ru, rd) ==
    LET jobs == ResyncJobs(ta, tu, td)
        groups == ResyncGroups(ra, ru, rd)
    IN  IF groups.raises THEN p
        ELSE [p EXCEPT ![rel] =
                [has_jobs |-> TRUE, scrape_jobs |-> jobs,
                 has_rules |-> TRUE,
                 alert_rules |-> [has_groups |-> TRUE, groups |-> groups.groups]]]

(***************************************************************************)
(* Notifications.  Each action is the relation view brought up to date     *)
(* followed by the handler the constructor observes for that event.        *)
(***************************************************************************)
\* scrape_target relation_changed: unit u of app joined or rewrote its databag
TargetChanged(app, u, bag) ==
    /\ app \in tapps
    /\ tunits' = [tunits EXCEPT ![app] = @ \cup {u}]
    /\ tdata' = [tdata EXCEPT ![app][u] = bag]
    /\ \E targets \in {GetTargets(us, tdata'[app], app) :
                            us \in IterationOrders(tunits'[app])} :
          pub' = UpdatePrometheusJobs(pub, down, targets, app)
    /\ last' = "target_changed"
    /\ UNCHANGED <<topos, consvars, rulevars, morevars, tapps, rapps, drels, runits, rdata, down, joined>>

\* scrape_target relation_departed: unit u of app is gone from relation.units
TargetDeparted(app, u) ==
    /\ app \in tapps
    /\ u \in tunits[app]
    /\ tunits' = [tunits EXCEPT ![app] = @ \ {u}]
    /\ tdata' = [tdata EXCEPT ![app][u] = NoTargetBag]
    /\ pub' = RemovePrometheusJobs(pub, down, app, u)
    /\ last' = "target_departed"
    /\ UNCHANGED <<topos, consvars, rulevars, morevars, tapps, rapps, drels, runits, rdata, down, joined>>

\* alert_rules relation_changed
RulesChanged(app, u, doc) ==
    /\ app \in rapps
    /\ runits' = [runits EXCEPT ![app] = @ \cup {u}]
    /\ rdata' = [rdata EXCEPT ![app][u] = doc]
    /\ \E loaded \in {GetAlertRules(us, rdata'[app], app) :
                           us \in IterationOrders(runits'[app])} :
          /\ pub' = UpdateAlertRules(pub, down, loaded, app)
          /\ last' = IF UpdateAlertRulesRaises(loaded, app)
                     THEN "rules_changed_raised" ELSE "rules_changed"
    /\ UNCHANGED <<topos, consvars, rulevars, morevars, tapps, rapps, drels, tunits, tdata, down, joined>>

\* alert_rules relation_departed
RulesDeparted(app, u) ==
    /\ app \in rapps
    /\ u \in runits[app]
    /\ runits' = [runits EXCEPT ![app] = @ \ {u}]
    /\ rdata' = [rdata EXCEPT ![app][u] = ""]
    /\ pub' = RemoveAlertRules(pub, down, app, u)
    /\ last' = "rules_departed"
    /\ UNCHANGED <<topos, consvars, rulevars, morevars, tapps, rapps, drels, tunits, tdata, down, joined>>

\* a relation towards Prometheus is established; no handler observes this
DownstreamCreated(rel) ==
    /\ rel \in drels
    /\ rel \notin down
    /\ down' = down \cup {rel}
    /\ last' = "downstream_created"
    /\ UNCHANGED <<topos, consvars, rulevars, morevars, tapps, rapps, drels, tunits, tdata, runits, rdata, joined, pub>>

\* prometheus relation_joined: _set_prometheus_data.  When the handler ends by
\* exception the notification has not been handled to completion.
DownstreamJoined(rel) ==
    /\ rel \in down
    /\ \E run \in {[pub |-> SetPrometheusData(pub, rel, tapps, tu, tdata,
                                                rapps, ru, rdata),
                      raises |-> ResyncGroups(rapps, ru, rdata).raises] :
                        tu \in WalksOf(tunits), ru \in WalksOf(runits)} :
          /\ pub' = run.pub
          /\ IF run.raises
             THEN joined' = joined /\ last' = "downstream_joined_raised"
             ELSE joined' = joined \cup {rel} /\ last' = "downstream_joined"
    /\ UNCHANGED <<topos, consvars, rulevars, morevars, tapps, rapps, drels, tunits, tdata, runits, rdata, down>>

Next ==
    \/ \E app \in Apps : \E u \in UnitsOf(app) :
          \E bag \in TargetBags(app, u) : TargetChanged(app, u, bag)
    \/ \E app \in Apps : \E u \in UnitsOf(app) : TargetDeparted(app, u)
    \/ \E app \in Apps : \E u \in UnitsOf(app) :
          \E doc \in RuleDocs : RulesChanged(app, u, doc)
    \/ \E app \in Apps : \E u \in UnitsOf(app) : RulesDeparted(app, u)
    \/ \E rel \in DownRels : DownstreamCreated(rel)
    \/ \E rel \in DownRels : DownstreamJoined(rel)

Spec == Init /\ [][Next]_vars

(***************************************************************************)
(* Topology objects on their own: construction and reads of .identifier.   *)
(* Field values are valid Juju names: letters, digits and hyphens, a unit  *)
(* being "<application>/<n>".                                              *)
(***************************************************************************)
ModelNames == {ModelName, <<"l", "m">>}
\* two uuids that agree on their first seven characters, and a third
ModelUuids == {ModelUuid,
               <<"1", "2", "3", "4", "5", "6", "7", "a", "b">>,
               <<"9", "2", "3", "4", "5", "6", "7", "8", "9">>}
CharmNames == {<<>>, <<"c">>}
UnitNamesOf(app) == {<<>>} \cup {UnitName(app, u) : u \in UnitIdx}

\* the identifier property of an object of class cls
Identifier(cls, t) ==
    IF cls = "ProviderTopology" THEN ProviderIdentifier(t) ELSE AggregatorIdentifier(t)

\* no MetricsEndpointAggregator is constructed
AggregatorIdle ==
    /\ tapps = {} /\ rapps = {} /\ drels = {}
    /\ tunits = [a \in Apps |-> {}]
    /\ tdata = [a \in Apps |-> [u \in UnitIdx |-> NoTargetBag]]
    /\ runits = [a \in Apps |-> {}]
    /\ rdata = [a \in Apps |-> [u \in UnitIdx |-> ""]]
    /\ down = {}
    /\ joined = {}
    /\ pub = [r \in DownRels |-> EmptyBag]
    /\ last = "init"

InitTopo ==
    /\ AggregatorIdle
    /\ topos = <<>>
    /\ ConsumerIdle
    /\ RulesIdle
    /\ MoreIdle

\* ProviderTopology(model, model_uuid, application, unit, charm_name)
ProviderTopologyNew(model, model_uuid, application, unit, charm_name) ==
    /\ Len(topos) < MaxTopologies
    /\ topos' = Append(topos,
          [cls |-> "ProviderTopology",
           t |-> Topology(model, model_uuid, application, unit, charm_name),
           ids |-> <<>>])
    /\ UNCHANGED <<aggvars, consvars, rulevars, morevars>>

\* AggregatorTopology.create(model, model_uuid, application, unit)
AggregatorTopologyNew(model, model_uuid, application, unit) ==
    /\ Len(topos) < MaxTopologies
    /\ topos' = Append(topos,
          [cls |-> "AggregatorTopology",
           t |-> AggregatorTopologyCreate(model, model_uuid, application, unit),
           ids |-> <<>>])
    /\ UNCHANGED <<aggvars, consvars, rulevars, morevars>>

\* one read of topology.identifier; the value returned is recorded
ReadIdentifier(i) ==
    /\ i \in 1 .. Len(topos)
    /\ Len(topos[i].ids) < MaxCalls
    /\ topos' = [topos EXCEPT ![i].ids = Append(@, Identifier(topos[i].cls, topos[i].t))]
    /\ UNCHANGED <<aggvars, consvars, rulevars, morevars>>

NextTopo ==
    \/ \E m \in ModelNames : \E id \in ModelUuids : \E app \in Apps :
          \E unit \in UnitNamesOf(app) : \E charm \in CharmNames :
             ProviderTopologyNew(m, id, app, unit, charm)
    \/ \E m \in ModelNames : \E id \in ModelUuids : \E app \in Apps :
          \E unit \in UnitNamesOf(app) : AggregatorTopologyNew(m, id, app, unit)
    \/ \E i \in 1 .. MaxTopologies : ReadIdentifier(i)

SpecTopo == InitTopo /\ [][NextTopo]_vars


(***************************************************************************)
(* MetricsEndpointConsumer: the provider relations and the calls of        *)
(* jobs().  Each action is the relation view brought up to date, then      *)
(* _on_metrics_provider_relation_changed / _departed emitting              *)
(* targets_changed, upon which the charm calls jobs().                     *)
(***************************************************************************)
ProvRels == 1 .. NumProv

CharmC == <<"c">>
EnvX == <<"x">>
UnitZ == <<"z">>
JobN == <<"n">>
UserModel == <<"u">>
UserRelabel ==
    [source_labels |-> <<"env">>, separator |-> "_", target_label |-> "e",
     regex |-> "(.*)"]

\* the jobs providers declare
JobEmpty == EmptyDict
JobWild ==
    [job_name |-> JobN,
     static_configs |-> <<[targets |-> <<<<"*", ":", "9", "1">>>>]>>]
JobMixed ==
    [static_configs |->
        <<[targets |-> <<<<"*", ":", "9", "1">>, <<"h", ":", "9", "2">>,
                         <<" ", "*", "\t", ":", " ", "9", "3", "">>>>,
           labels |-> [env |-> EnvX, juju_unit |-> UnitZ, juju_model |-> UserModel]]>>,
     relabel_configs |-> <<UserRelabel>>,
     honor_labels |-> TRUE]
JobFixed ==
    [job_name |-> JobN,
     static_configs |-> <<[targets |-> <<<<"h", ":", "9", "2">>>>,
                          labels |-> [juju_unit |-> UnitZ]]>>]
JobNoColon ==
    [static_configs |-> <<[targets |-> <<<<"*", ":", "9", "1">>, <<"h", "9", "2">>>>]>>]
JobTwoColons ==
    [static_configs |-> <<[targets |-> <<<<"h", ":", "9", ":", "2">>>>]>>]
JobNoConfigs == [static_configs |-> <<>>]
JobEmptyName ==
    [job_name |-> <<>>,
     static_configs |-> <<[targets |-> <<<<"h", ":", "9", "2">>>>]>>]

\* the values of scrape_jobs a provider may publish on relation r
JobListsOf(r) ==
    IF r = 1
    THEN {<<JobEmpty>>, <<JobWild>>, <<JobMixed>>, <<JobFixed>>, <<JobNoColon>>,
          <<JobTwoColons>>, <<JobNoConfigs>>, <<JobEmptyName>>}
    ELSE {<<JobWild>>, <<JobMixed>>}

\* the units of the provider of relation r
ProvUnitsOf(r) == IF r = 1 THEN UnitIdx ELSE 0 .. (NumUnits - 2)

\* address a provider unit binds to
AddressOf(app, u) == <<"i">> \o app \o FormatInt(u)

\* what a unit of a provider writes into its databag: what _set_unit_ip
\* writes or, for the first unit, also nothing yet or the deprecated key alone
ProvUnitBags(app, u) ==
    {[prometheus_scrape_unit_address |-> AddressOf(app, u),
      prometheus_scrape_unit_name |-> UnitName(app, u)]}
    \cup (IF u = 0
          THEN {EmptyDict, [prometheus_scrape_host |-> AddressOf(app, u)]}
          ELSE {})

\* MetricsEndpointProvider._scrape_metadata: self.topology.as_dict(), the
\* topology being that of the leader unit
ScrapeMetadata(app, leader) ==
    ItemsToDict(as_dict(Topology(ModelName, ModelUuid, app, UnitName(app, leader),
                                 CharmC), EmptyDict))

\* the values of scrape_metadata the provider of relation r may publish: none
\* (a provider not using the library), or that of one of its units as leader
MetadatasOf(r, app) == {EmptyDict} \cup {ScrapeMetadata(app, u) : u \in ProvUnitsOf(r)}

\* the applications behind the provider relations: twice the same
\* application (related over two endpoints), or two applications
ConsumerDeployments == {<<AppA, AppA>>, <<AppA, AppB>>}

NoJobs == [raises |-> FALSE, value |-> <<>>]
NoAlerts == [n |-> 0, raises |-> FALSE, value |-> EmptyDict, r |-> 0, partial |-> EmptyDict]

\* no provider has published alert_rules and alerts() has not been called
AlertsIdle == palerts = [r \in ProvRels |-> EmptyDict] /\ calerts = NoAlerts

InitConsumer ==
    /\ AggregatorIdle
    /\ topos = <<>>
    /\ RulesIdle
    /\ MoreIdle
    /\ \E d \in ConsumerDeployments :
          prels = [r \in ProvRels |->
                      [app |-> IF r <= Len(d) THEN d[r] ELSE AppB, units |-> {},
                       walk |-> <<>>,
                       udata |-> [u \in UnitIdx |-> EmptyDict],
                       scrape_jobs |-> <<>>, scrape_metadata |-> EmptyDict]]
    /\ cjobs = NoJobs
    /\ creads = 0
    /\ AlertsIdle

\* the charm's targets_changed handler: jobs() over model.relations
CallJobs(module, rels) == ConsumerJobs(module, [r \in ProvRels |-> rels[r]])

\* the relations as the process of the next hook sees them: relation.units of
\* each is a new set of new Unit objects, walked in an order of its own
Rewalked(rels) ==
    LET orders == [r \in ProvRels |-> IterationOrders(rels[r].units)]
    IN  {[r \in ProvRels |-> [rels[r] EXCEPT !.walk = w[r]]] :
            w \in {v \in [ProvRels -> UNION {orders[r] : r \in ProvRels}] :
                      \A r \in ProvRels : v[r] \in orders[r]}}

\* self._jobs of a MetricsEndpointProvider of the same process once the
\* module is as given: a value a job shares with DEFAULT_JOB is the one
\* DEFAULT_JOB holds; pd is <<>> when the charm has no provider
ProviderJobsSeen(pd, module) ==
    IF "jobs" \in DOMAIN pd
    THEN [pd EXCEPT !.jobs = SeenWith(module, @, pd.jobs_shared)]
    ELSE pd

\* jobs() is called: what it returns or raises, and the module as it leaves it
JobsCalled(rels) ==
    \E got \in {CallJobs(module_globals, rels)} :
        /\ cjobs' = [raises |-> got.raises, value |-> got.value]
        /\ module_globals' = got.module
        /\ pdata' = ProviderJobsSeen(pdata, got.module)

\* relation_changed: the provider's leader wrote scrape_jobs, with
\* scrape_metadata (set_scrape_job_spec) or, not using the library, without
ProviderPublished(r, jobs, metadata) ==
    /\ \E rels \in Rewalked([prels EXCEPT ![r].scrape_jobs = jobs,
                                           ![r].scrape_metadata = metadata]) :
          prels' = rels /\ JobsCalled(rels)
    /\ creads' = 1
    /\ calerts' = NoAlerts
    /\ UNCHANGED <<aggvars, topos, rulevars, transvars, setupvars, palerts>>

\* relation_changed: unit u of the provider joined or rewrote its databag
ProviderUnitChanged(r, u, bag) ==
    /\ \E rels \in Rewalked([prels EXCEPT ![r].units = @ \cup {u},
                                           ![r].udata[u] = bag]) :
          prels' = rels /\ JobsCalled(rels)
    /\ creads' = 1
    /\ calerts' = NoAlerts
    /\ UNCHANGED <<aggvars, topos, rulevars, transvars, setupvars, palerts>>

\* relation_departed: unit u is gone from relation.units
ProviderUnitDeparted(r, u) ==
    /\ u \in prels[r].units
    /\ \E rels \in Rewalked([prels EXCEPT ![r].units = @ \ {u},
                                           ![r].udata[u] = EmptyDict]) :
          prels' = rels /\ JobsCalled(rels)
    /\ creads' = 1
    /\ calerts' = NoAlerts
    /\ UNCHANGED <<aggvars, topos, rulevars, transvars, setupvars, palerts>>

\* the charm calls jobs() once more, the relation data being as it was
JobsRead ==
    /\ creads \in 1 .. (MaxReads - 1)
    /\ JobsCalled(prels)
    /\ creads' = creads + 1
    /\ UNCHANGED <<aggvars, topos, rulevars, transvars, setupvars, prels,
                   palerts, calerts>>

NextConsumer ==
    \/ \E r \in ProvRels : \E jobs \in JobListsOf(r) :
          \E metadata \in MetadatasOf(r, prels[r].app) :
             ProviderPublished(r, jobs, metadata)
    \/ \E r \in ProvRels : \E u \in ProvUnitsOf(r) :
          \E bag \in ProvUnitBags(prels[r].app, u) : ProviderUnitChanged(r, u, bag)
    \/ \E r \in ProvRels : \E u \in ProvUnitsOf(r) : ProviderUnitDeparted(r, u)

SpecConsumer == InitConsumer /\ [][NextConsumer]_vars

(***************************************************************************)
(* AlertRules: the rule files on disk and the calls of add_path            *)
(***************************************************************************)
Collections == 1 .. NumRules

\* the tree: r/a.rule, r/a.rules, r/n.txt, r/s/c.rule; r/m does not exist
RootDir == <<<<"r">>>>
SubDir == RootDir \o <<<<"s">>>>
FileARule == RootDir \o <<<<"a", ".", "r", "u", "l", "e">>>>
FileARules == RootDir \o <<<<"a", ".", "r", "u", "l", "e", "s">>>>
FileSubC == SubDir \o <<<<"c", ".", "r", "u", "l", "e">>>>
FileText == RootDir \o <<<<"n", ".", "t", "x", "t">>>>
MissingPath == RootDir \o <<<<"m">>>>
RuleFilePaths == {FileARule, FileARules, FileSubC, FileText}
RuleDirs == {RootDir, SubDir}

\* documents a rule file may hold
AlertB == <<"B">>
GroupA == <<"a">>
RuleUp(alert) == [alert |-> alert, expr |-> ExprUp]
RuleLabelled(alert) ==
    [alert |-> alert, expr |-> ExprUp \o <<"{", STUB, "}">>,
     labels |-> [severity |-> Page, juju_model |-> UserModel]]
DocSingle(alert) == PyDict(RuleUp(alert))
DocSingleLabelled(alert) == PyDict(RuleLabelled(alert))
DocOfficial(group_name, alert) ==
    PyDict([groups |-> <<[name |-> group_name, rules |-> <<RuleUp(alert)>>]>>])
\* an official rule file whose group sets an evaluation interval
DocOfficialTimed(group_name, alert) ==
    PyDict([groups |-> <<[name |-> group_name, interval |-> <<"1", "m">>,
                          rules |-> <<RuleUp(alert)>>]>>])
DocOther == PyDict([record |-> ExprUp])
DocInt == PyInt(5)
DocText == PyStr(ExprUp)
DocListOfRules == PyList(<<PyDict(RuleUp(AlertA))>>)
DocListOfKeys == PyList(<<PyStr(AlertText), PyStr(ExprText)>>)
DocListWithLabels == PyList(<<PyStr(AlertText), PyStr(ExprText), PyStr(LabelsText)>>)

Parsed(doc) == [parses |-> TRUE, doc |-> doc]
Unparseable == [parses |-> FALSE]

\* what yaml.safe_load may make of each file
ContentsOf(f) ==
    CASE f = FileARule ->
            {Parsed(DocSingle(AlertA)), Parsed(DocOfficial(GroupA, AlertA)),
             Parsed(PyNone), Parsed(DocInt), Parsed(DocText), Parsed(DocListOfRules),
             Parsed(DocListOfKeys), Parsed(DocListWithLabels), Parsed(DocOther),
             Unparseable}
      [] f = FileARules -> {Parsed(DocSingle(AlertB)), Unparseable}
      [] f = FileSubC ->
            {Parsed(DocSingleLabelled(AlertA)), Parsed(DocOfficialTimed(GroupA, AlertB))}
      [] f = FileText -> {Parsed(DocSingle(AlertA))}

\* the topology an AlertRules collection is built with: that of a provider
\* unit, or none (PrometheusRulesProvider)
RulesTopology(app, u) == Topology(ModelName, ModelUuid, app, UnitName(app, u), <<"c">>)
TopologiesOf(c) ==
    IF c = 1
    THEN {[has_topology |-> TRUE, topology |-> RulesTopology(AppA, 0)]}
    ELSE {[has_topology |-> TRUE, topology |-> RulesTopology(AppA, 1)],
          [has_topology |-> TRUE, topology |-> RulesTopology(AppB, 0)],
          [has_topology |-> FALSE, topology |-> RulesTopology(AppA, 0)]}

\* the arguments add_path is called with
AddPathInputs ==
    {[path |-> RootDir, recursive |-> TRUE], [path |-> RootDir, recursive |-> FALSE],
     [path |-> SubDir, recursive |-> FALSE], [path |-> FileARule, recursive |-> FALSE],
     [path |-> FileText, recursive |-> TRUE], [path |-> MissingPath, recursive |-> FALSE]}

\* AlertRules.__init__ of every collection, over files already written
InitRules ==
    /\ AggregatorIdle
    /\ topos = <<>>
    /\ ConsumerIdle
    /\ MoreIdle
    /\ \E contents \in [RuleFilePaths -> UNION {ContentsOf(f) : f \in RuleFilePaths}] :
          /\ \A f \in RuleFilePaths : contents[f] \in ContentsOf(f)
          /\ rfiles = contents
    /\ \E built \in [Collections -> UNION {TopologiesOf(c) : c \in Collections}] :
          /\ \A c \in Collections : built[c] \in TopologiesOf(c)
          /\ alert_groups = [c \in Collections |->
                                [has_topology |-> built[c].has_topology,
                                 topology |-> built[c].topology,
                                 alert_groups |-> <<>>]]
    /\ radds = <<>>

\* what add_path finds at path: the groups to extend self.alert_groups with,
\* or the exception; order is the order of the glob when path is a directory
AddPathResult(c, path, recursive, order) ==
    AddPathFinds(alert_groups[c].has_topology, alert_groups[c].topology, path,
                 order, RuleDirs, rfiles)

\* AlertRules.add_path(path, recursive=recursive) on collection c
AddPath(c, path, recursive) ==
    /\ Len(radds) < MaxAdds
    /\ \E order \in GlobOrders(MultiSuffixGlob(RuleFilePaths, path, RuleSuffixes,
                                               recursive)) :
          LET found == AddPathResult(c, path, recursive, order)
          IN  /\ alert_groups' =
                     [alert_groups EXCEPT ![c].alert_groups =
                         IF found.raises THEN @ ELSE @ \o found.value]
              /\ radds' = Append(radds, [c |-> c, path |-> path,
                                         recursive |-> recursive,
                                         raises |-> found.raises])
    /\ UNCHANGED <<aggvars, topos, consvars, morevars, rfiles>>

NextRules ==
    \E c \in Collections : \E call \in AddPathInputs :
        AddPath(c, call.path, call.recursive)

SpecRules == InitRules /\ [][NextRules]_vars

(***************************************************************************)
(* A charm that is both ends: it consumes one provider relation through    *)
(* MetricsEndpointConsumer and loads its own rule files through            *)
(* AlertRules, once with its topology and once without.                    *)
(***************************************************************************)
LabellingJobLists == {<<JobMixed>>, <<JobFixed>>}
LabellingMetadatas == {EmptyDict, ScrapeMetadata(AppA, 0)}
LabellingAddPathInputs ==
    {[path |-> RootDir, recursive |-> TRUE], [path |-> SubDir, recursive |-> FALSE]}

InitLabelling ==
    /\ AggregatorIdle
    /\ topos = <<>>
    /\ MoreIdle
    /\ prels = [r \in ProvRels |->
                   [app |-> IF r = 1 THEN AppA ELSE AppB, units |-> {},
                    walk |-> <<>>,
                    udata |-> [u \in UnitIdx |-> EmptyDict],
                    scrape_jobs |-> <<>>, scrape_metadata |-> EmptyDict]]
    /\ cjobs = NoJobs
    /\ creads = 0
    /\ AlertsIdle
    /\ \E sub \in ContentsOf(FileSubC) :
          rfiles = [f \in RuleFilePaths |->
                       IF f = FileSubC THEN sub
                       ELSE IF f = FileARules THEN Parsed(DocSingle(AlertB))
                       ELSE Parsed(DocSingle(AlertA))]
    /\ alert_groups = [c \in Collections |->
                          [has_topology |-> (c = 1),
                           topology |-> RulesTopology(AppA, 0),
                           alert_groups |-> <<>>]]
    /\ radds = <<>>

NextLabelling ==
    \/ \E jobs \in LabellingJobLists : \E metadata \in LabellingMetadatas :
          ProviderPublished(1, jobs, metadata)
    \/ \E u \in ProvUnitsOf(1) : \E bag \in ProvUnitBags(prels[1].app, u) :
          ProviderUnitChanged(1, u, bag)
    \/ \E u \in ProvUnitsOf(1) : ProviderUnitDeparted(1, u)
    \/ \E c \in Collections : \E call \in LabellingAddPathInputs :
          AddPath(c, call.path, call.recursive)

SpecLabelling == InitLabelling /\ [][NextLabelling]_vars

(***************************************************************************)
(* Setup: the constructions of MetricsEndpointConsumer and                 *)
(* MetricsEndpointProvider in a charm whose metadata.yaml declares the     *)
(* relations meta.  meta maps the names of the declared relations to       *)
(* [interface, role]; role peer is a relation of charm.meta.peers;         *)
(* containers holds the names of the containers of the unit.               *)
(***************************************************************************)
RELATION_INTERFACE_NAME == "prometheus-scrape"
RelationNames == {"metrics-endpoint", "monitoring"}
\* the names a construction is given: those, and one no charm declares
ArgumentNames == RelationNames \cup {"db"}
RelationDeclarations ==
    [interface : {RELATION_INTERFACE_NAME, "http"},
     role : {"provides", "requires", "peer"}]
Metadatas == UNION {[S -> RelationDeclarations] : S \in SUBSET RelationNames}
ObjectKinds == {"MetricsEndpointConsumer", "MetricsEndpointProvider"}
\* a machine charm has no container, a Kubernetes charm one or more
ContainerSets == {{}, {"workload"}}

\* _validate_relation_by_interface_and_direction with the role looked at
\* before the interface
ValidateRelationRoleFirst(charm_meta, relation_name, expected_relation_interface, expected_relation_role) ==
    IF relation_name \notin DOMAIN charm_meta
    THEN "RelationNotFoundError"
    ELSE IF expected_relation_role \in {"provides", "requires"}
              /\ charm_meta[relation_name].role # expected_relation_role
    THEN "RelationRoleMismatchError"
    ELSE IF charm_meta[relation_name].interface # expected_relation_interface
    THEN "RelationInterfaceMismatchError"
    ELSE IF expected_relation_role \notin {"provides", "requires"}
    THEN "Exception"
    ELSE "none"

\* _validate_relation_by_interface_and_direction: the exception raised, or
\* none; relation_name is in charm.meta.provides (requires) when its role is
ValidateRelation(charm_meta, relation_name, expected_relation_interface, expected_relation_role) ==
    IF relation_name \notin DOMAIN charm_meta
    THEN "RelationNotFoundError"
    ELSE IF charm_meta[relation_name].interface # expected_relation_interface
    THEN "RelationInterfaceMismatchError"
    ELSE IF expected_relation_role = "provides"
    THEN IF charm_meta[relation_name].role # "provides"
         THEN "RelationRoleMismatchError" ELSE "none"
    ELSE IF expected_relation_role = "requires"
    THEN IF charm_meta[relation_name].role # "requires"
         THEN "RelationRoleMismatchError" ELSE "none"
    ELSE "Exception"

\* the role each class validates against
ExpectedRole(kind) ==
    IF kind = "MetricsEndpointConsumer" THEN "requires" ELSE "provides"

\* the events each constructor observes once the validation passed; the
\* provider observes pebble_ready of every container of the unit
ObservedBy(kind, unit_containers) ==
    IF kind = "MetricsEndpointConsumer"
    THEN {"relation_changed", "relation_departed"}
    ELSE {"relation_joined", "relation_changed", "upgrade_charm"}
         \cup (IF unit_containers # {} THEN {"pebble_ready"} ELSE {})

InitSetup ==
    /\ AggregatorIdle
    /\ ModuleLoaded
    /\ topos = <<>>
    /\ ConsumerIdle
    /\ RulesIdle
    /\ TransformerIdle
    /\ ProviderIdle
    /\ meta \in Metadatas
    /\ containers \in ContainerSets
    /\ objs = <<>>

\* MetricsEndpointConsumer(charm, relation_name) or
\* MetricsEndpointProvider(charm, relation_name): the validation, and only
\* when it raised nothing the registration of the observers
Construct(kind, relation_name) ==
    /\ Len(objs) < MaxObjects
    /\ LET error == ValidateRelation(meta, relation_name, RELATION_INTERFACE_NAME,
                                     ExpectedRole(kind))
       IN  objs' = Append(objs,
                      [kind |-> kind, relation_name |-> relation_name,
                       error |-> error,
                       observers |-> IF error = "none"
                                     THEN ObservedBy(kind, containers) ELSE {},
                       handled |-> {}])
    /\ UNCHANGED <<aggvars, topos, consvars, rulevars, transvars, pdata, meta,
                   containers, module_globals>>

\* the framework emits event to the observers registered for it by object i;
\* the handler of the object reads or writes relation data
Emit(i, event) ==
    /\ i \in 1 .. Len(objs)
    /\ event \in objs[i].observers
    /\ event \notin objs[i].handled
    /\ objs' = [objs EXCEPT ![i].handled = @ \cup {event}]
    /\ UNCHANGED <<aggvars, topos, consvars, rulevars, transvars, pdata, meta,
                   containers, module_globals>>

NextSetup ==
    \/ \E kind \in ObjectKinds : \E relation_name \in ArgumentNames :
          Construct(kind, relation_name)
    \/ \E i \in 1 .. MaxObjects :
          \E event \in ObservedBy("MetricsEndpointConsumer", containers)
                          \cup ObservedBy("MetricsEndpointProvider", containers) :
             Emit(i, event)

SpecSetup == InitSetup /\ [][NextSetup]_vars

(***************************************************************************)
(* PromqlTransformer.  transformer is [path, disabled, lookups]: _path     *)
(* (<<>> for None), _disabled, and the calls of _get_transformer_path      *)
(* made so far.  resource says what fetching the promql-transform          *)
(* resource does now.  applying is the call of                             *)
(* apply_label_matchers: where it is (pc), the rules as rewritten so far,  *)
(* the position of the rule whose expression the tool is working on, how   *)
(* this run of the tool is going to end, and the exception of a call that  *)
(* raised.  A rule set is [groups |-> sequence of groups]; subprocess.run  *)
(* blocks until the tool ends.                                             *)
(***************************************************************************)
ToolPath == <<"/", "t">>
TOPOLOGY_LABELS ==
    <<"juju_model", "juju_model_uuid", "juju_application", "juju_charm", "juju_unit">>
NoTool == [kind |-> "none", stdout |-> <<>>]
NoRules == [groups |-> <<>>]
UsageText == <<"E">>

\* _get_transformer_path: the path, None after ModelError or NameError, or
\* the exception of os.chmod going up
GetTransformerPath(res) ==
    CASE res = "present" -> [raises |-> FALSE, value |-> ToolPath]
      [] res = "absent" -> [raises |-> FALSE, value |-> <<>>]
      [] res = "broken" -> [raises |-> TRUE, value |-> <<>>]

\* the path property without the test of _disabled
PathPropertyRetrying(tr, res) ==
    IF tr.path = <<>>
    THEN LET got == GetTransformerPath(res)
             looked == [tr EXCEPT !.lookups = @ + 1]
         IN  IF got.raises THEN [transformer |-> looked, value |-> <<>>, raises |-> TRUE]
             ELSE IF got.value = <<>>
             THEN [transformer |-> [looked EXCEPT !.disabled = TRUE],
                   value |-> <<>>, raises |-> FALSE]
             ELSE [transformer |-> [looked EXCEPT !.path = got.value],
                   value |-> got.value, raises |-> FALSE]
    ELSE [transformer |-> tr, value |-> tr.path, raises |-> FALSE]

\* the path property: the transformer after the read, the value read, and
\* whether the lookup raised
PathProperty(tr, res) ==
    IF tr.disabled
    THEN [transformer |-> tr, value |-> <<>>, raises |-> FALSE]
    ELSE IF tr.path = <<>>
    THEN LET got == GetTransformerPath(res)
             looked == [tr EXCEPT !.lookups = @ + 1]
         IN  IF got.raises THEN [transformer |-> looked, value |-> <<>>, raises |-> TRUE]
             ELSE IF got.value = <<>>
             THEN [transformer |-> [looked EXCEPT !.disabled = TRUE],
                   value |-> <<>>, raises |-> FALSE]
             ELSE [transformer |-> [looked EXCEPT !.path = got.value],
                   value |-> got.value, raises |-> FALSE]
    ELSE [transformer |-> tr, value |-> tr.path, raises |-> FALSE]

\* apply_label_matchers: the labels of the rule that are topology labels
RuleTopology(rule) ==
    DictRestrict(rule["labels"], Range(TOPOLOGY_LABELS))

\* the <<group, rule>> positions of a rule set in the order of the two loops
RulePositions(rules) ==
    Concat([g \in 1 .. Len(rules["groups"]) |->
               [r \in 1 .. Len(DictGet(rules["groups"][g], "rules", <<>>)) |-> <<g, r>>]])

RuleAt(rules, k) ==
    LET at == RulePositions(rules)[k]
    IN  rules["groups"][at[1]]["rules"][at[2]]

\* rule["expr"] = expression, for the rule at position k
SetExpr(rules, k, expression) ==
    LET at == RulePositions(rules)[k]
    IN  [rules EXCEPT !["groups"][at[1]]["rules"][at[2]]["expr"] = expression]

\* what promql-transform prints for the arguments _apply_label_matcher
\* builds: the expression with one matcher per label of topology
Injected(expression, topology) ==
    LET keys == SelectSeq(TOPOLOGY_LABELS, LAMBDA k : k \in DOMAIN topology)
    IN  expression \o <<"{">>
        \o Concat([i \in 1 .. Len(keys) |-> <<keys[i], "=">> \o topology[keys[i]] \o <<",">>])
        \o <<"}">>

\* the ways subprocess.run(cmd, check=False, stdout=PIPE) may go: the tool
\* exits 0 having printed the expression with its matchers, exits 1 having
\* printed nothing or a message, cannot be started (OSError), or never ends
ToolRuns(expression, topology) ==
    {[kind |-> "exit0", stdout |-> Injected(expression, topology) \o <<"\n">>],
     [kind |-> "exit1", stdout |-> <<>>],
     [kind |-> "exit1", stdout |-> UsageText],
     [kind |-> "raises", stdout |-> <<>>],
     [kind |-> "hangs", stdout |-> <<>>]}

\* _exec: stdout decoded and stripped, whatever the return code
Exec(tool) == Strip(tool.stdout)

\* _apply_label_matcher once the tool has ended: the output of _exec, or
\* the expression when subprocess.run raised
ApplyLabelMatcherResult(expression, tool) ==
    IF tool.kind = "raises" THEN expression ELSE Exec(tool)

\* the two loops of apply_label_matchers from position k on, up to the next
\* run of the tool: rule["labels"] and then rule["expr"] are read of every
\* rule, and a rule without either raises KeyError; a rule without topology
\* labels keeps its expression, as does every rule when the path reads None
RECURSIVE Advance(_, _, _, _)
Advance(tr, res, rules, k) ==
    IF k > Len(RulePositions(rules)) THEN [pc |-> "returned", pos |-> 0, error |-> ""]
    ELSE IF "labels" \notin DOMAIN RuleAt(rules, k)
    THEN [pc |-> "raised", pos |-> k, error |-> "KeyError"]
    ELSE IF "expr" \notin DOMAIN RuleAt(rules, k)
    THEN [pc |-> "raised", pos |-> k, error |-> "KeyError"]
    ELSE IF RuleTopology(RuleAt(rules, k)) = EmptyDict
              \/ PathProperty(tr, res).value = <<>>
    THEN Advance(tr, res, rules, k + 1)
    ELSE [pc |-> "exec", pos |-> k, error |-> ""]

\* apply_label_matchers(rules) up to its first run of the tool or, when
\* there is none, to its end: the transformer after the read of the path,
\* and where the call stands: returned, or raised by the lookup of the path
\* (what os.chmod raised, an OSError) or by a read of the rules (KeyError)
ApplyLabelMatchersCall(tr, res, rules) ==
    LET read == PathProperty(tr, res)
    IN  [transformer |-> read.transformer,
         at |-> IF read.raises THEN [pc |-> "raised", pos |-> 0, error |-> "OSError"]
                ELSE IF read.value = <<>> THEN [pc |-> "returned", pos |-> 0, error |-> ""]
                ELSE IF "groups" \notin DOMAIN rules
                THEN [pc |-> "raised", pos |-> 0, error |-> "KeyError"]
                ELSE Advance(read.transformer, res, rules, 1)]

\* the runs the tool may make where the call stands
ToolRunsAt(rules, at) ==
    IF at.pc = "exec"
    THEN ToolRuns(RuleAt(rules, at.pos)["expr"], RuleTopology(RuleAt(rules, at.pos)))
    ELSE {NoTool}

\* the rule sets a consumer finds in alert_rules
TransformerModel == [juju_model |-> ModelName, juju_model_uuid |-> ModelUuid,
                     severity |-> Page]
RuleWithTopology(alert) == [alert |-> alert, expr |-> ExprUp, labels |-> TransformerModel]
RuleWithoutTopology ==
    [alert |-> AlertA, expr |-> ExprUp, labels |-> [severity |-> Page]]
RuleWithoutLabels == [alert |-> AlertA, expr |-> ExprUp]
RuleWithoutExpr == [alert |-> AlertA, labels |-> [severity |-> Page]]
RuleSets ==
    {NoRules,
     [groups |-> <<[name |-> GroupA,
                    rules |-> <<RuleWithTopology(AlertA), RuleWithTopology(AlertB)>>]>>],
     [groups |-> <<[name |-> GroupA, rules |-> <<RuleWithoutTopology>>],
                   [name |-> GroupA, rules |-> <<RuleWithTopology(AlertB)>>]>>],
     [groups |-> <<[name |-> GroupA, rules |-> <<RuleWithoutLabels>>]>>],
     [groups |-> <<[name |-> GroupA, rules |-> <<RuleWithoutExpr>>]>>],
     [groups |-> <<[name |-> GroupA,
                    rules |-> <<RuleWithTopology(AlertA), RuleWithoutExpr>>]>>],
     [groups |-> <<[name |-> GroupA]>>]}
Resources == {"present", "absent", "broken"}

\* PromqlTransformer(charm)
InitTransformer ==
    /\ AggregatorIdle
    /\ ModuleLoaded
    /\ topos = <<>>
    /\ ConsumerIdle
    /\ RulesIdle
    /\ SetupIdle
    /\ ProviderIdle
    /\ transformer = [path |-> <<>>, disabled |-> FALSE, lookups |-> 0]
    /\ resource \in Resources
    /\ applying = [pc |-> "idle", rules |-> NoRules, pos |-> 0, tool |-> NoTool,
                   calls |-> 0, error |-> ""]

\* the charm calls apply_label_matchers(rules): the call goes up to its
\* first run of the tool or, when there is none, to its end
ApplyLabelMatchers(rules) ==
    /\ applying.pc \in {"idle", "returned", "raised"}
    /\ applying.calls < MaxApplies
    /\ \E call \in {ApplyLabelMatchersCall(transformer, resource, rules)} :
          /\ transformer' = call.transformer
          /\ \E tool \in ToolRunsAt(rules, call.at) :
                applying' = [pc |-> call.at.pc, rules |-> rules, pos |-> call.at.pos,
                             tool |-> tool, calls |-> applying.calls + 1,
                             error |-> call.at.error]
    /\ UNCHANGED <<aggvars, topos, consvars, rulevars, setupvars, pdata, resource, module_globals>>

\* subprocess.run ends: the rule gets what _apply_label_matcher returns and
\* the loops go on to the next run of the tool or to the end
ToolReturns ==
    /\ applying.pc = "exec"
    /\ applying.tool.kind # "hangs"
    /\ LET expression == RuleAt(applying.rules, applying.pos)["expr"]
           rules == SetExpr(applying.rules, applying.pos,
                            ApplyLabelMatcherResult(expression, applying.tool))
           at == Advance(transformer, resource, rules, applying.pos + 1)
       IN  \E tool \in ToolRunsAt(rules, at) :
               applying' = [applying EXCEPT !.pc = at.pc, !.rules = rules,
                                            !.pos = at.pos, !.tool = tool,
                                            !.error = at.error]
    /\ UNCHANGED <<aggvars, topos, consvars, rulevars, setupvars, pdata, resource,
                   transformer, module_globals>>

\* the resource is attached, detached or replaced between two hooks
ResourceChanged(res) ==
    /\ res # resource
    /\ applying.pc # "exec"
    /\ resource' = res
    /\ UNCHANGED <<aggvars, topos, consvars, rulevars, setupvars, pdata, transformer,
                   applying, module_globals>>

NextTransformer ==
    \/ \E rules \in RuleSets : ApplyLabelMatchers(rules)
    \/ ToolReturns
    \/ \E res \in Resources : ResourceChanged(res)

SpecTransformer == InitTransformer /\ [][NextTransformer]_vars

\* a tool that ends is given the time to end; the code sets no deadline
SpecTransformerFair == SpecTransformer /\ WF_vars(ToolReturns)

(***************************************************************************)
(* MetricsEndpointProvider, as one unit of application a sees it.  pdata   *)
(* is [leader, rels, run]: whether the unit is the leader; for each        *)
(* relation whether it exists, the unit's databag and the application      *)
(* databag (the keys written, and the value of each of the three keys);    *)
(* and how the last handler run went (its number, the handler, whether     *)
(* the unit was the leader, whether it raised, what it collected); jobs is *)
(* self._jobs; observers are the handlers of the charm's library objects   *)
(* in the order of their registration, and pending those that have yet to  *)
(* run for the event being emitted: a hook runs to its end before anything *)
(* else happens to the unit.  rfiles is the rule directory of the charm    *)
(* revision installed.                                                     *)
(***************************************************************************)
ProviderUnitTopology == RulesTopology(AppA, 0)
NoRun == [n |-> 0, handler |-> "", leader |-> FALSE, raises |-> FALSE,
          groups |-> <<>>, alert_rules_as_dict |-> EmptyDict]
NoAppData == [keys |-> {}, scrape_metadata |-> EmptyDict, scrape_jobs |-> <<>>,
              alert_rules |-> EmptyDict]

\* the rule directories a charm revision may ship: three rule files, one
\* rule file, no file that holds a rule, and a file that is empty (null)
Disks ==
    {[f \in RuleFilePaths |->
         IF f = FileARules THEN Parsed(DocSingle(AlertB))
         ELSE IF f = FileSubC THEN Parsed(DocSingleLabelled(AlertA))
         ELSE Parsed(DocSingle(AlertA))],
     [f \in RuleFilePaths |->
         IF f = FileARules THEN Unparseable
         ELSE IF f = FileSubC THEN Parsed(DocOfficialTimed(GroupA, AlertB))
         ELSE Parsed(DocOther)],
     [f \in RuleFilePaths |-> IF f = FileARules THEN Unparseable ELSE Parsed(DocOther)],
     [f \in RuleFilePaths |-> IF f = FileARule THEN Parsed(PyNone) ELSE Parsed(DocOther)]}

\* AlertRules.as_dict that returns the groups key also when there is no group
AsDictAlwaysGroups(groups) == [groups |-> groups]

\* AlertRules.as_dict
AsDict(groups) == IF groups # <<>> THEN [groups |-> groups] ELSE EmptyDict

\* the _scrape_jobs property
ScrapeJobs(pd) == IF pd.jobs # <<>> THEN pd.jobs ELSE <<module_globals.DEFAULT_JOB>>

\* _set_unit_ip: the unit databag of every relation gets address and name
SetUnitIp(pd) ==
    [pd EXCEPT !.rels =
        [r \in ProvRels |->
            IF pd.rels[r].present
            THEN [pd.rels[r] EXCEPT !.unit =
                     DictUpdate(@, [prometheus_scrape_unit_address |-> AddressOf(AppA, 0),
                                    prometheus_scrape_unit_name |-> UnitName(AppA, 0)])]
            ELSE pd.rels[r]]]

\* set_scrape_job_spec: order is what the glob of add_path yields
SetScrapeJobSpec(pd, files, order) ==
    LET ip == SetUnitIp(pd)
        found == AddPathFinds(TRUE, ProviderUnitTopology, pd.alert_rules_path, order,
                              RuleDirs, files)
        alert_rules_as_dict == AsDict(found.value)
        run == [n |-> pd.run.n + 1, handler |-> "set_scrape_job_spec",
                leader |-> pd.leader,
                raises |-> pd.leader /\ found.raises,
                groups |-> IF pd.leader THEN found.value ELSE <<>>,
                alert_rules_as_dict |->
                    IF pd.leader /\ ~found.raises THEN alert_rules_as_dict ELSE EmptyDict]
        written == [r \in ProvRels |->
                       IF ip.rels[r].present
                       THEN [ip.rels[r] EXCEPT !.app =
                               [keys |-> @.keys \cup {"scrape_metadata", "scrape_jobs"}
                                          \cup (IF alert_rules_as_dict # EmptyDict
                                                THEN {"alert_rules"} ELSE {}),
                                scrape_metadata |->
                                    ItemsToDict(as_dict(ProviderUnitTopology, EmptyDict)),
                                scrape_jobs |-> ScrapeJobs(pd),
                                alert_rules |-> IF alert_rules_as_dict # EmptyDict
                                                THEN alert_rules_as_dict
                                                ELSE @.alert_rules]]
                       ELSE ip.rels[r]]
    IN  IF ~pd.leader \/ found.raises THEN [ip EXCEPT !.run = run]
        ELSE [ip EXCEPT !.rels = written, !.run = run]

\* the orders of the glob of add_path(path, recursive=True)
ProviderGlobOrders(path) ==
    GlobOrders(MultiSuffixGlob(RuleFilePaths, path, RuleSuffixes, TRUE))

\* PrometheusRulesProvider._update_relation_data: order is what the glob of
\* add_path yields
UpdateRelationData(pd, files, order) ==
    LET found == FromDir(FALSE, ProviderUnitTopology, RootDir, order, files)
        alert_rules_as_dict == AsDict(found.value)
        run == [n |-> pd.run.n + 1, handler |-> "_update_relation_data",
                leader |-> pd.leader,
                raises |-> pd.leader /\ found.raises,
                groups |-> IF pd.leader THEN found.value ELSE <<>>,
                alert_rules_as_dict |->
                    IF pd.leader /\ ~found.raises THEN alert_rules_as_dict ELSE EmptyDict]
        written == [r \in ProvRels |->
                       IF pd.rels[r].present
                       THEN [pd.rels[r] EXCEPT
                               !.app.keys = @ \cup {"alert_rules"},
                               !.app.alert_rules = alert_rules_as_dict]
                       ELSE pd.rels[r]]
    IN  IF ~pd.leader \/ found.raises THEN [pd EXCEPT !.run = run]
        ELSE [pd EXCEPT !.rels = written, !.run = run]

\* the framework emits an event: the handlers that observe it run one after
\* the other in the order in which they were registered.  The first of
\* handlers runs, over the rule files as they are on disk when it runs and
\* in an order the glob of its add_path may yield; the handlers after it
\* are still to run, unless it raised, which ends the hook.
Dispatched(handlers, files) ==
    IF Head(handlers) = "set_scrape_job_spec"
    THEN \E order \in ProviderGlobOrders(pdata.alert_rules_path) :
            \E ran \in {SetScrapeJobSpec(pdata, files, order)} :
               pdata' = [ran EXCEPT !.pending = IF ran.run.raises THEN <<>>
                                                ELSE Tail(handlers)]
    ELSE \E order \in ProviderGlobOrders(RootDir) :
            \E ran \in {UpdateRelationData(pdata, files, order)} :
               pdata' = [ran EXCEPT !.pending = IF ran.run.raises THEN <<>>
                                                ELSE Tail(handlers)]

\* the paths the charm may hand to set_alert_path: the rule directory, the
\* directory below it, a directory that does not exist, and a rule file
AlertPaths == {RootDir, SubDir, MissingPath, FileARules}

\* MetricsEndpointProvider(charm, relation_name) on an installed revision of
\* a charm with one container
InitProvider ==
    /\ AggregatorIdle
    /\ ModuleLoaded
    /\ topos = <<>>
    /\ ConsumerIdle
    /\ TransformerIdle
    /\ meta = <<>> /\ objs = <<>>
    /\ containers = {"workload"}
    /\ alert_groups = <<>> /\ radds = <<>>
    /\ rfiles \in Disks
    /\ \E leader \in BOOLEAN :
          pdata = [leader |-> leader,
                   rels |-> [r \in ProvRels |->
                               [present |-> FALSE, unit |-> EmptyDict, app |-> NoAppData]],
                   run |-> NoRun,
                   jobs |-> <<>>, jobs_shared |-> <<>>,
                   alert_rules_path |-> RootDir,
                   observers |-> <<"set_scrape_job_spec">>, pending |-> <<>>]

\* Juju creates relation r; the library observes no event for it
RelationCreated(r) ==
    /\ pdata.pending = <<>>
    /\ ~pdata.rels[r].present
    /\ pdata' = [pdata EXCEPT !.rels[r].present = TRUE]
    /\ UNCHANGED <<aggvars, topos, consvars, rulevars, transvars, setupvars, module_globals>>

\* relation_joined or relation_changed of relation r is emitted: the first
\* of its observers runs
RelationJoinedOrChanged(r) ==
    /\ pdata.pending = <<>>
    /\ pdata.run.n < MaxRuns
    /\ pdata.rels[r].present
    /\ Dispatched(pdata.observers, rfiles)
    /\ UNCHANGED <<aggvars, topos, consvars, rulevars, transvars, setupvars, module_globals>>

\* upgrade_charm is emitted: the new revision's rule directory is on disk,
\* and the first of its observers runs
UpgradeCharm(disk) ==
    /\ pdata.pending = <<>>
    /\ pdata.run.n < MaxRuns
    /\ rfiles' = disk
    /\ Dispatched(pdata.observers, disk)
    /\ UNCHANGED <<aggvars, topos, consvars, alert_groups, radds, transvars, setupvars, module_globals>>

\* set_alert_path(path): _resolve_dir_against_charm_path gives the directory
\* when there is one at path; when it raises, the path is kept as it was
\* given.  Either way self._alert_rules_path names path.
SetAlertPath(path) ==
    /\ pdata.pending = <<>>
    /\ path # pdata.alert_rules_path
    /\ pdata' = [pdata EXCEPT !.alert_rules_path = path]
    /\ UNCHANGED <<aggvars, topos, consvars, rulevars, transvars, setupvars, module_globals>>

\* pebble_ready of a container: _set_unit_ip
PebbleReady ==
    /\ pdata.pending = <<>>
    /\ containers # {}
    /\ pdata' = SetUnitIp(pdata)
    /\ pdata' # pdata
    /\ UNCHANGED <<aggvars, topos, consvars, rulevars, transvars, setupvars, module_globals>>

\* Juju moves the leadership to or away from this unit; the library
\* observes no event for it
LeaderChanged ==
    /\ pdata.pending = <<>>
    /\ pdata' = [pdata EXCEPT !.leader = ~@]
    /\ UNCHANGED <<aggvars, topos, consvars, rulevars, transvars, setupvars, module_globals>>

NextProvider ==
    \/ \E r \in ProvRels : RelationCreated(r)
    \/ \E r \in ProvRels : RelationJoinedOrChanged(r)
    \/ \E disk \in Disks : UpgradeCharm(disk)
    \/ \E path \in AlertPaths : SetAlertPath(path)
    \/ PebbleReady
    \/ LeaderChanged

SpecProvider == InitProvider /\ [][NextProvider]_vars

(***************************************************************************)
(* A charm that holds, on the same endpoint, a MetricsEndpointProvider and *)
(* a PrometheusRulesProvider over the same rule directory.  Both observe   *)
(* relation_joined, relation_changed and upgrade_charm, and the handlers   *)
(* of one event run in the order in which the charm constructed the two.   *)
(***************************************************************************)
ObserverOrders ==
    {<<"set_scrape_job_spec", "_update_relation_data">>,
     <<"_update_relation_data", "set_scrape_job_spec">>}

InitPublication ==
    /\ AggregatorIdle
    /\ ModuleLoaded
    /\ topos = <<>>
    /\ ConsumerIdle
    /\ TransformerIdle
    /\ meta = <<>> /\ objs = <<>>
    /\ containers = {"workload"}
    /\ alert_groups = <<>> /\ radds = <<>>
    /\ rfiles \in Disks
    /\ \E leader \in BOOLEAN : \E observers \in ObserverOrders :
          pdata = [leader |-> leader,
                   rels |-> [r \in ProvRels |->
                               [present |-> FALSE, unit |-> EmptyDict, app |-> NoAppData]],
                   run |-> NoRun,
                   jobs |-> <<>>, jobs_shared |-> <<>>,
                   alert_rules_path |-> RootDir,
                   observers |-> observers, pending |-> <<>>]

\* the next observer of the event being emitted runs, over the rule files
\* as they are on disk now
ObserverNotified ==
    /\ pdata.pending # <<>>
    /\ Dispatched(pdata.pending, rfiles)
    /\ UNCHANGED <<aggvars, topos, consvars, rulevars, transvars, setupvars, module_globals>>

\* leader_elected is emitted, which of the two only PrometheusRulesProvider
\* observes
RulesProviderObserved ==
    /\ pdata.pending = <<>>
    /\ pdata.run.n < MaxRuns
    /\ Dispatched(<<"_update_relation_data">>, rfiles)
    /\ UNCHANGED <<aggvars, topos, consvars, rulevars, transvars, setupvars, module_globals>>

NextPublication ==
    \/ \E r \in ProvRels : RelationCreated(r)
    \/ \E r \in ProvRels : RelationJoinedOrChanged(r)
    \/ \E disk \in Disks : UpgradeCharm(disk)
    \/ ObserverNotified
    \/ \E path \in AlertPaths : SetAlertPath(path)
    \/ PebbleReady
    \/ LeaderChanged
    \/ RulesProviderObserved

SpecPublication == InitPublication /\ [][NextPublication]_vars

(***************************************************************************)
(* MetricsEndpointConsumer.alerts(), called by the charm after the         *)
(* relation data changed.  A mapping from identifiers to rule sets is a    *)
(* function from texts; an identifier that is None or empty is <<>>.  The  *)
(* call runs promql-transform once for every rule that carries topology    *)
(* labels and waits in subprocess.run each time: calerts.r is then the     *)
(* relation whose rules are being rewritten, calerts.partial the mapping   *)
(* built so far and applying the place in the rules; calerts.n counts the  *)
(* calls that have ended and calerts.raises, calerts.value say how the     *)
(* last one did.  The hook that waits keeps the unit from running another. *)
(***************************************************************************)
\* the labels _get_identifier_by_alert_rules reads
IDENTIFIER_LABELS == <<"juju_model", "juju_model_uuid", "juju_application">>

\* the first loop of _get_identifier_by_alert_rules from group g on: the
\* labels of the first rule of the first group that has them joined, <<>>
\* when every group ended in KeyError; an empty list of rules is an
\* IndexError, which goes up
RECURSIVE LabelsIdentifier(_, _)
LabelsIdentifier(groups, g) ==
    IF g > Len(groups) THEN [raises |-> FALSE, value |-> <<>>]
    ELSE IF "rules" \notin DOMAIN groups[g] THEN LabelsIdentifier(groups, g + 1)
    ELSE IF groups[g]["rules"] = <<>> THEN [raises |-> TRUE, value |-> <<>>]
    ELSE IF "labels" \notin DOMAIN groups[g]["rules"][1]
    THEN LabelsIdentifier(groups, g + 1)
    ELSE LET labels == groups[g]["rules"][1]["labels"]
         IN  IF Range(IDENTIFIER_LABELS) \subseteq DOMAIN labels
             THEN [raises |-> FALSE,
                   value |-> JoinUnderscore([i \in 1 .. Len(IDENTIFIER_LABELS) |->
                                                labels[IDENTIFIER_LABELS[i]]])]
             ELSE LabelsIdentifier(groups, g + 1)

\* _get_identifier_by_alert_rules
GetIdentifierByAlertRules(rules) ==
    IF "groups" \notin DOMAIN rules THEN [raises |-> FALSE, value |-> <<>>]
    ELSE LET labelled == LabelsIdentifier(rules["groups"], 1)
         IN  IF labelled.raises \/ labelled.value # <<>> THEN labelled
             ELSE IF rules["groups"] = <<>> THEN [raises |-> FALSE, value |-> <<>>]
             ELSE [raises |-> FALSE,
                   value |-> DictGet(rules["groups"][1], "name", <<>>)]

\* whether ProviderTopology.from_relation_data(scrape_metadata) ends in
\* KeyError, as does the read of a scrape_metadata that is not there
MetadataKeyError(scrape_metadata) ==
    ~({"model", "model_uuid", "application"} \subseteq DOMAIN scrape_metadata)

\* alerts[identifier] = alert_rules unless the identifier is None or empty
AlertsEntry(st, transformer_now, identifier, alert_rules) ==
    IF identifier.raises
    THEN [transformer |-> transformer_now, raises |-> TRUE, value |-> st.value]
    ELSE IF identifier.value = <<>>
    THEN [transformer |-> transformer_now, raises |-> FALSE, value |-> st.value]
    ELSE [transformer |-> transformer_now, raises |-> FALSE,
          value |-> DictUpdate(st.value,
                               [k \in {identifier.value} |-> alert_rules])]

RECURSIVE AlertsFrom(_, _, _, _, _)

\* alerts() for relation r once apply_label_matchers(alert_rules) stands
\* where call says, and the loop after it: the call waits for the tool; it
\* returned and the rules go under the topology identifier; it raised
\* KeyError, which the except clause of alerts() takes for a missing
\* scrape_metadata, and the rules as rewritten so far go under the
\* identifier of _get_identifier_by_alert_rules; or it raised another
\* exception, which goes up
AlertsApplied(st, r, rels, rules, res, alert_rules, call) ==
    CASE call.at.pc = "exec"
           -> [transformer |-> call.transformer, raises |-> FALSE, value |-> st.value,
               pc |-> "exec", r |-> r, pos |-> call.at.pos, rules |-> alert_rules]
      [] call.at.pc = "returned"
           -> AlertsFrom(AlertsEntry(st, call.transformer,
                                     [raises |-> FALSE,
                                      value |-> ProviderIdentifier(
                                                   FromRelationData(rels[r].scrape_metadata))],
                                     alert_rules),
                         r + 1, rels, rules, res)
      [] call.at.pc = "raised" /\ call.at.error = "KeyError"
           -> AlertsFrom(AlertsEntry(st, call.transformer,
                                     GetIdentifierByAlertRules(alert_rules), alert_rules),
                         r + 1, rels, rules, res)
      [] OTHER
           -> [transformer |-> call.transformer, raises |-> TRUE, value |-> st.value,
               pc |-> "ended", r |-> 0, pos |-> 0, rules |-> NoRules]

\* the body of the loop of alerts() for relation r, and the loop after it;
\* st is the transformer, whether an exception went up and the mapping so
\* far
AlertsOfRelation(st, r, rels, rules, res) ==
    IF rels[r].units = {} \/ rules[r] = EmptyDict
    THEN AlertsFrom(st, r + 1, rels, rules, res)
    ELSE IF MetadataKeyError(rels[r].scrape_metadata)
    THEN AlertsFrom(AlertsEntry(st, st.transformer, GetIdentifierByAlertRules(rules[r]),
                                rules[r]),
                    r + 1, rels, rules, res)
    ELSE AlertsApplied(st, r, rels, rules, res, rules[r],
                       ApplyLabelMatchersCall(st.transformer, res, rules[r]))

\* the loop of alerts() from relation r on, up to the next run of the tool
\* or to the end of the call
AlertsFrom(st, r, rels, rules, res) ==
    IF st.raises \/ r > NumProv
    THEN [transformer |-> st.transformer, raises |-> st.raises, value |-> st.value,
          pc |-> "ended", r |-> 0, pos |-> 0, rules |-> NoRules]
    ELSE AlertsOfRelation(st, r, rels, rules, res)

\* alerts(), up to its first run of the tool or, when there is none, to its
\* end
Alerts(rels, rules, tr, res) ==
    AlertsFrom([transformer |-> tr, raises |-> FALSE, value |-> EmptyDict], 1,
               rels, rules, res)

\* the rules a provider may have in alert_rules
AlertsTopologyLabels(app) ==
    [juju_model |-> ModelName, juju_model_uuid |-> ModelUuid,
     juju_application |-> app, severity |-> Page]
RuleOf(app) == [alert |-> AlertA, expr |-> ExprUp, labels |-> AlertsTopologyLabels(app)]
GroupNamedFor(app) == <<"g">> \o app
AlertRuleSetsOf(r, app) ==
    {EmptyDict,
     [groups |-> <<[name |-> GroupNamedFor(app), rules |-> <<RuleOf(app)>>]>>],
     [groups |-> <<[name |-> GroupNamedFor(app), rules |-> <<RuleWithoutTopology>>],
                   [name |-> GroupA, rules |-> <<RuleOf(app)>>]>>],
     [groups |-> <<[name |-> GroupNamedFor(app), rules |-> <<RuleWithoutTopology>>]>>],
     [groups |-> <<[name |-> GroupNamedFor(app), rules |-> <<RuleWithoutExpr>>]>>]}
    \cup (IF r = 1
          THEN {NoRules,
                [groups |-> <<[name |-> GroupNamedFor(app),
                               rules |-> <<RuleOf(app), RuleOf(app)>>]>>],
                [groups |-> <<[name |-> GroupNamedFor(app),
                               rules |-> <<RuleOf(app), RuleWithoutLabels>>]>>],
                [groups |-> <<[name |-> GroupNamedFor(app)]>>],
                [groups |-> <<[name |-> GroupNamedFor(app), rules |-> <<>>]>>],
                [groups |-> <<[rules |-> <<RuleWithoutTopology>>]>>]}
          ELSE {})
AlertsMetadatas(app) == {EmptyDict, ScrapeMetadata(app, 0)}
AlertsResources == {"present", "absent"}

\* a consumer charm with its PromqlTransformer, the resource attached or not
InitAlerts ==
    /\ AggregatorIdle
    /\ ModuleLoaded
    /\ topos = <<>>
    /\ RulesIdle
    /\ SetupIdle
    /\ ProviderIdle
    /\ transformer = [path |-> <<>>, disabled |-> FALSE, lookups |-> 0]
    /\ resource \in AlertsResources
    /\ applying = [pc |-> "idle", rules |-> NoRules, pos |-> 0, tool |-> NoTool,
                   calls |-> 0, error |-> ""]
    /\ \E d \in ConsumerDeployments :
          prels = [r \in ProvRels |->
                      [app |-> IF r <= Len(d) THEN d[r] ELSE AppB, units |-> {},
                       walk |-> <<>>,
                       udata |-> [u \in UnitIdx |-> EmptyDict],
                       scrape_jobs |-> <<>>, scrape_metadata |-> EmptyDict]]
    /\ cjobs = NoJobs
    /\ creads = 0
    /\ AlertsIdle

\* relation_changed: the provider's leader wrote alert_rules, with
\* scrape_metadata or without
ProviderRulesPublished(r, rules, metadata) ==
    /\ applying.pc # "exec"
    /\ \E rels \in Rewalked([prels EXCEPT ![r].scrape_metadata = metadata]) :
          prels' = rels /\ JobsCalled(rels)
    /\ palerts' = [palerts EXCEPT ![r] = rules]
    /\ creads' = 1
    /\ calerts' = NoAlerts
    /\ UNCHANGED <<aggvars, topos, rulevars, transvars, setupvars>>

\* where a step of alerts() leaves the call: waiting for a run of the tool,
\* which may end in any of its ways or never, or ended
AlertsStands(got) ==
    /\ transformer' = got.transformer
    /\ IF got.pc = "exec"
       THEN /\ calerts' = [calerts EXCEPT !.r = got.r, !.partial = got.value]
            /\ \E tool \in ToolRunsAt(got.rules, got) :
                  applying' = [pc |-> "exec", rules |-> got.rules, pos |-> got.pos,
                               tool |-> tool, calls |-> applying.calls, error |-> ""]
       ELSE /\ calerts' = [n |-> calerts.n + 1, raises |-> got.raises,
                           value |-> got.value, r |-> 0, partial |-> EmptyDict]
            /\ applying' = [pc |-> "idle", rules |-> NoRules, pos |-> 0,
                            tool |-> NoTool, calls |-> applying.calls, error |-> ""]

\* the charm calls alerts()
AlertsCalled ==
    /\ applying.pc # "exec"
    /\ calerts.n < MaxAlertsCalls
    /\ \E got \in {Alerts(prels, palerts, transformer, resource)} : AlertsStands(got)
    /\ UNCHANGED <<aggvars, topos, rulevars, setupvars, pdata, prels, cjobs, creads,
                   palerts, resource, module_globals>>

\* subprocess.run ends during alerts(): the rule gets what
\* _apply_label_matcher returns, and the loops of apply_label_matchers and
\* of alerts() go on to the next run of the tool or to the end of the call
AlertsToolReturns ==
    /\ applying.pc = "exec"
    /\ applying.tool.kind # "hangs"
    /\ \E rules \in {SetExpr(applying.rules, applying.pos,
                              ApplyLabelMatcherResult(
                                 RuleAt(applying.rules, applying.pos)["expr"],
                                 applying.tool))} :
          \E got \in {AlertsApplied(
                          [transformer |-> transformer, raises |-> FALSE,
                           value |-> calerts.partial],
                          calerts.r, prels, palerts, resource, rules,
                          [transformer |-> transformer,
                           at |-> Advance(transformer, resource, rules,
                                          applying.pos + 1)])} :
             AlertsStands(got)
    /\ UNCHANGED <<aggvars, topos, rulevars, setupvars, pdata, prels, cjobs, creads,
                   palerts, resource, module_globals>>

NextAlerts ==
    \/ \E r \in ProvRels : \E rules \in AlertRuleSetsOf(r, prels[r].app) :
          \E metadata \in AlertsMetadatas(prels[r].app) :
             ProviderRulesPublished(r, rules, metadata)
    \/ \E r \in ProvRels :
          /\ applying.pc # "exec"
          /\ ProviderUnitChanged(r, 0,
                [prometheus_scrape_unit_address |-> AddressOf(prels[r].app, 0),
                 prometheus_scrape_unit_name |-> UnitName(prels[r].app, 0)])
    \/ \E r \in ProvRels : applying.pc # "exec" /\ ProviderUnitDeparted(r, 0)
    \/ AlertsCalled
    \/ AlertsToolReturns
    \/ \E res \in AlertsResources : ResourceChanged(res)

SpecAlerts == InitAlerts /\ [][NextAlerts]_vars

(***************************************************************************)
(* One process that has imported the module and holds both a               *)
(* MetricsEndpointProvider, whose jobs the charm sets, and a               *)
(* MetricsEndpointConsumer, whose jobs() the charm calls: every use the    *)
(* library makes of DEFAULT_JOB and ALLOWED_KEYS.                          *)
(***************************************************************************)
\* the job lists the charm hands to set_jobs, and providers publish
GlobalsJobLists == {<<>>, <<JobEmpty>>, <<JobMixed>>}

InitGlobals ==
    /\ AggregatorIdle
    /\ ModuleLoaded
    /\ topos = <<>>
    /\ TransformerIdle
    /\ SetupIdle
    /\ alert_groups = <<>> /\ radds = <<>>
    /\ rfiles = [f \in RuleFilePaths |->
                    IF f = FileARules THEN Unparseable ELSE Parsed(DocOther)]
    /\ pdata = [leader |-> TRUE,
                rels |-> [r \in ProvRels |->
                            [present |-> r = 1, unit |-> EmptyDict, app |-> NoAppData]],
                run |-> NoRun,
                jobs |-> <<>>, jobs_shared |-> <<>>,
                alert_rules_path |-> RootDir,
                observers |-> <<"set_scrape_job_spec">>, pending |-> <<>>]
    /\ prels = [r \in ProvRels |->
                   [app |-> IF r = 1 THEN AppA ELSE AppB, units |-> {},
                    walk |-> <<>>,
                    udata |-> [u \in UnitIdx |-> EmptyDict],
                    scrape_jobs |-> <<>>, scrape_metadata |-> EmptyDict]]
    /\ cjobs = NoJobs
    /\ creads = 0
    /\ AlertsIdle

\* set_jobs(jobs): each job kept is a shallow copy of DEFAULT_JOB updated,
\* and jobs_shared[i] are its keys whose values are DEFAULT_JOB's own
SetJobs(jobs) ==
    /\ pdata' = [pdata EXCEPT
                    !.jobs = [i \in 1 .. Len(jobs) |->
                                 SanitizeScrapeConfiguration(module_globals, jobs[i])],
                    !.jobs_shared = [i \in 1 .. Len(jobs) |->
                                        SharedWithDefault(module_globals, jobs[i])]]
    /\ pdata' # pdata
    /\ UNCHANGED <<aggvars, topos, consvars, rulevars, transvars, setupvars,
                   module_globals>>

NextGlobals ==
    \/ \E jobs \in GlobalsJobLists : SetJobs(jobs)
    \/ RelationJoinedOrChanged(1)
    \/ \E jobs \in GlobalsJobLists \ {<<>>} :
          ProviderPublished(1, jobs, ScrapeMetadata(AppA, 0))
    \/ \E u \in ProvUnitsOf(1) :
          ProviderUnitChanged(1, u, [prometheus_scrape_unit_address |-> AddressOf(AppA, u),
                                     prometheus_scrape_unit_name |-> UnitName(AppA, u)])
    \/ JobsRead

SpecGlobals == InitGlobals /\ [][NextGlobals]_vars

(***************************************************************************)
(* Properties                                                              *)
(***************************************************************************)
\* the jobs of a list that carry a name
JobsNamed(jobs, name) == SelectSeq(jobs, LAMBDA j : j.job_name = name)
GroupsNamed(groups, name) == SelectSeq(groups, LAMBDA g : g.name = name)

\* what the changed handlers read for a relation in the current state when
\* they walk relation.units in ascending order
TargetsNow(app) == GetTargets(Ascending(tunits[app]), tdata[app], app)
RulesNow(app) == GetAlertRules(Ascending(runits[app]), rdata[app], app)

\* C1: handling the target-changed (alert-rules-changed) notification of a peer
\* a second time, with the relation data as it is, leaves the databag of every
\* relation towards Prometheus exactly as the first handling left it: same
\* jobs (groups), same order, same content.
C1_MergeIdempotent ==
    /\ \A app \in tapps : \A first, again \in IterationOrders(tunits[app]) :
          LET once == UpdatePrometheusJobs(pub, down,
                                           GetTargets(first, tdata[app], app), app)
          IN  UpdatePrometheusJobs(once, down,
                                   GetTargets(again, tdata[app], app), app) = once
    /\ \A app \in rapps : \A first, again \in IterationOrders(runits[app]) :
          LET once == UpdateAlertRules(pub, down,
                                       GetAlertRules(first, rdata[app], app), app)
          IN  UpdateAlertRules(once, down,
                               GetAlertRules(again, rdata[app], app), app) = once

\* C2: no published scrape_jobs holds two jobs of one job_name and no published
\* alert_rules holds two groups of one name.
C2_FragmentNamesUnique ==
    \A r \in DownRels :
        /\ \A i, j \in 1 .. Len(pub[r].scrape_jobs) :
              pub[r].scrape_jobs[i].job_name = pub[r].scrape_jobs[j].job_name => i = j
        /\ \A i, j \in 1 .. Len(pub[r].alert_rules.groups) :
              pub[r].alert_rules.groups[i].name = pub[r].alert_rules.groups[j].name
                  => i = j

\* C2 witness: two groups are published on one relation after a rules-changed
\* notification replaced a group that was already there.
C2_Witness ==
    /\ last = "rules_changed"
    /\ \E r \in down :
          /\ Len(pub[r].alert_rules.groups) = 2
          /\ Len(pub[r].alert_rules.groups[2].rules) = 2

\* the elements of seq at the indices of idx, in their order
Restrict(seq, idx) ==
    LET order == Ascending(idx)
    IN  [k \in 1 .. Len(order) |-> seq[order[k]]]

\* C3, for one relation towards Prometheus: before and after are its scrape_jobs
\* around the departure of unit u of app
C3_DepartureEffect(before, after, app, u) ==
    LET old == JobsNamed(before, JobName(app))
        new == JobsNamed(after, JobName(app))
    IN  IF old = <<>> THEN new = <<>>
        ELSE LET configs == old[1].static_configs
                 remaining == {i \in 1 .. Len(configs) :
                                  configs[i].labels.juju_unit # UnitName(app, u)}
             IN  /\ (new = <<>>) <=> (remaining = {})
                 /\ new # <<>> =>
                       /\ Len(new) = 1
                       /\ new[1].static_configs = Restrict(configs, remaining)
                       /\ new[1].relabel_configs = old[1].relabel_configs

\* C3: when a unit of a target peer departs, the handler removes from the
\* peer's job exactly the static-config groups labelled with the departing
\* unit, leaves the groups of the peer's other units as they were, and drops
\* the job if and only if no group remains.
C3_PartialRemoval ==
    [][\A app \in Apps : \A u \in UnitsOf(app) :
          (last' = "target_departed" /\ TargetDeparted(app, u)) =>
              \A r \in down :
                  C3_DepartureEffect(pub[r].scrape_jobs, pub'[r].scrape_jobs, app, u)]_vars

\* C3 witness: a departure was just handled and the peer's job is still
\* published with the one group of its remaining unit.
C3_Witness ==
    /\ last = "target_departed"
    /\ \E r \in down : \E u \in tunits[AppA] :
          LET job == JobsNamed(pub[r].scrape_jobs, JobName(AppA))
          IN  /\ tunits[AppA] = {u}
              /\ job # <<>>
              /\ Len(job[1].static_configs) = 1
              /\ job[1].static_configs[1].labels.juju_unit = UnitName(AppA, u)

\* C4: with every notification handled to completion, each relation towards
\* Prometheus whose join was handled publishes a job for target application P
\* if and only if P has at least one unit supplying a hostname, and that job
\* has exactly one static-config group for each such unit and none for any
\* other unit.
C4_PublishedEqualsActive ==
    \A r \in joined : \A app \in tapps :
        LET targets == TargetsNow(app)
            job == JobsNamed(pub[r].scrape_jobs, JobName(app))
        IN  /\ (job # <<>>) <=> (targets # <<>>)
            /\ job # <<>> =>
                  /\ Len(job) = 1
                  /\ Len(job[1].static_configs) = Len(targets)
                  /\ {c.labels.juju_unit : c \in Range(job[1].static_configs)}
                        = {t.unit_name : t \in Range(targets)}

\* the units of an alert-rule relation whose "groups" value holds rules
UnitsWithRules(ru, rd, app) == {u \in ru[app] : rd[app][u] \in {"labelled", "unlabelled"}}

\* C5, for the databag the join handler leaves: one job for every target
\* relation that has a unit with a hostname, one rule group for every
\* alert-rule relation that has rules, and nothing else
C5_EntireAggregate(bag, ta, tu, td, ra, ru, rd) ==
    LET active == {a \in ta : GetTargets(Ascending(tu[a]), td[a], a) # <<>>}
        ruled == {a \in ra : UnitsWithRules(ru, rd, a) # {}}
    IN  /\ bag.has_jobs /\ bag.has_rules /\ bag.alert_rules.has_groups
        /\ Len(bag.scrape_jobs) = Cardinality(active)
        /\ \A a \in active :
              \E i \in 1 .. Len(bag.scrape_jobs) :
                  /\ bag.scrape_jobs[i].job_name = JobName(a)
                  /\ {c.labels.juju_unit : c \in Range(bag.scrape_jobs[i].static_configs)}
                        = {UnitName(a, u) : u \in {v \in tu[a] : td[a][v].hostname # <<>>}}
        /\ Len(bag.alert_rules.groups) = Cardinality(ruled)
        /\ \A a \in ruled :
              \E i \in 1 .. Len(bag.alert_rules.groups) :
                  /\ bag.alert_rules.groups[i].name = AggGroupName(a)
                  /\ {rule.labels.juju_unit : rule \in Range(bag.alert_rules.groups[i].rules)}
                        = {UnitName(a, u) : u \in UnitsWithRules(ru, rd, a)}

\* C5: when a relation towards Prometheus is joined, the handler writes to it
\* the entire current aggregate recomputed from all peers, whatever had been
\* published on it before.
C5_FullResyncOnJoin ==
    [][\A rel \in DownRels :
          (last' \in {"downstream_joined", "downstream_joined_raised"}
             /\ DownstreamJoined(rel)) =>
              C5_EntireAggregate(pub'[rel], tapps, tunits, tdata, rapps, runits, rdata)]_vars

\* C6, for a notification about peer app: on every relation towards
\* Prometheus the job and the rule group of every other peer are as before
C6_OthersKept(app) ==
    \A r \in DownRels : \A q \in Apps \ {app} :
        /\ JobsNamed(pub'[r].scrape_jobs, JobName(q))
              = JobsNamed(pub[r].scrape_jobs, JobName(q))
        /\ GroupsNamed(pub'[r].alert_rules.groups, AggGroupName(q))
              = GroupsNamed(pub[r].alert_rules.groups, AggGroupName(q))

\* C6: handling a changed or departed notification for peer P leaves, in every
\* relation towards Prometheus, every job and every rule group named after a
\* different peer unchanged in content; handling a joined notification leaves
\* the databags of all other relations towards Prometheus unchanged.
C6_UnchangedPeersPreserved ==
    [][/\ \A app \in Apps : \A u \in UnitsOf(app) :
             /\ (last' = "target_changed"
                   /\ \E bag \in TargetBags(app, u) : TargetChanged(app, u, bag))
                    => C6_OthersKept(app)
             /\ (last' = "target_departed" /\ TargetDeparted(app, u))
                    => C6_OthersKept(app)
             /\ (last' \in {"rules_changed", "rules_changed_raised"}
                   /\ \E doc \in RuleDocs : RulesChanged(app, u, doc))
                    => C6_OthersKept(app)
             /\ (last' = "rules_departed" /\ RulesDeparted(app, u))
                    => C6_OthersKept(app)
       /\ \A rel \in DownRels :
             (last' \in {"downstream_joined", "downstream_joined_raised"}
                /\ DownstreamJoined(rel))
                 => \A other \in DownRels \ {rel} : pub'[other] = pub[other]]_vars

\* C6 witness: the departure of a peer's last unit was just handled, that
\* peer's job is gone and the other peer's job is still published.
C6_Witness ==
    /\ last = "target_departed"
    /\ \E r \in down :
          /\ tunits[AppA] = {}
          /\ JobsNamed(pub[r].scrape_jobs, JobName(AppA)) = <<>>
          /\ JobsNamed(pub[r].scrape_jobs, JobName(AppB)) # <<>>

\* the published fragments of every relation towards Prometheus, list position
\* ignored
C7_Fragments(p) ==
    [r \in DownRels |->
        [has_jobs |-> p[r].has_jobs, jobs |-> Range(p[r].scrape_jobs),
         has_rules |-> p[r].has_rules, has_groups |-> p[r].alert_rules.has_groups,
         groups |-> Range(p[r].alert_rules.groups)]]

\* the databags after the target-changed handler ran for app with unit u's
\* databag set to bag, the handler walking the units of app in the order us
C7_AfterTarget(p, app, us, u, bag) ==
    UpdatePrometheusJobs(p, down,
        GetTargets(us, [tdata[app] EXCEPT ![u] = bag], app), app)

\* the databags after the rules-changed handler ran for app with unit u's
\* "groups" set to doc, the handler walking the units of app in the order us
C7_AfterRules(p, app, us, u, doc) ==
    UpdateAlertRules(p, down,
        GetAlertRules(us, [rdata[app] EXCEPT ![u] = doc], app), app)

\* C7: for two distinct peers P and Q, handling P's changed notification and
\* then Q's publishes the same set of jobs and rule groups (by name and
\* content, list position ignored) as handling Q's and then P's.
C7_MergesCommute ==
    /\ \A P \in tapps : \A Q \in tapps \ {P} :
       \A u \in UnitsOf(P) : \A v \in UnitsOf(Q) :
       \A bp \in TargetBags(P, u) : \A bq \in TargetBags(Q, v) :
       \A p1, p2 \in IterationOrders(tunits[P] \cup {u}) :
       \A q1, q2 \in IterationOrders(tunits[Q] \cup {v}) :
          C7_Fragments(C7_AfterTarget(C7_AfterTarget(pub, P, p1, u, bp), Q, q1, v, bq))
             = C7_Fragments(C7_AfterTarget(C7_AfterTarget(pub, Q, q2, v, bq), P, p2, u, bp))
    /\ \A P \in rapps : \A Q \in rapps \ {P} :
       \A u \in UnitsOf(P) : \A v \in UnitsOf(Q) :
       \A dp \in RuleDocs : \A dq \in RuleDocs :
       \A p1, p2 \in IterationOrders(runits[P] \cup {u}) :
       \A q1, q2 \in IterationOrders(runits[Q] \cup {v}) :
          C7_Fragments(C7_AfterRules(C7_AfterRules(pub, P, p1, u, dp), Q, q1, v, dq))
             = C7_Fragments(C7_AfterRules(C7_AfterRules(pub, Q, q2, v, dq), P, p2, u, dp))
    /\ \A P \in tapps : \A Q \in rapps \ {P} :
       \A u \in UnitsOf(P) : \A v \in UnitsOf(Q) :
       \A bp \in TargetBags(P, u) : \A dq \in RuleDocs :
       \A p1, p2 \in IterationOrders(tunits[P] \cup {u}) :
       \A q1, q2 \in IterationOrders(runits[Q] \cup {v}) :
          C7_Fragments(C7_AfterRules(C7_AfterTarget(pub, P, p1, u, bp), Q, q1, v, dq))
             = C7_Fragments(C7_AfterTarget(C7_AfterRules(pub, Q, q2, v, dq), P, p2, u, bp))

\* C8, for one relation towards Prometheus: before and after are its
\* alert_rules around the departure of unit u of app
C8_DepartureEffect(before, after, app, u) ==
    LET old == GroupsNamed(before.groups, AggGroupName(app))
        new == GroupsNamed(after.groups, AggGroupName(app))
    IN  IF old = <<>> THEN after = before
        ELSE LET rules == old[1].rules
                 remaining == {i \in 1 .. Len(rules) :
                                  rules[i].labels.juju_unit # UnitName(app, u)}
             IN  /\ (new = <<>>) <=> (remaining = {})
                 /\ new # <<>> =>
                       /\ Len(new) = 1
                       /\ new[1].rules = Restrict(rules, remaining)
                 /\ after.has_groups <=> (after.groups # <<>>)

\* C8: when a unit of an alert-rule peer departs, the handler removes from the
\* peer's published group exactly the rules whose juju_unit label is the
\* departing unit, keeps the rules of the peer's other units, drops the group
\* when no rule remains, and publishes the empty object as alert_rules when no
\* group at all remains.
C8_RuleGroupPartialRemoval ==
    [][\A app \in Apps : \A u \in UnitsOf(app) :
          (last' = "rules_departed" /\ RulesDeparted(app, u)) =>
              \A r \in down :
                  /\ C8_DepartureEffect(pub[r].alert_rules, pub'[r].alert_rules, app, u)
                  /\ GroupsNamed(pub[r].alert_rules.groups, AggGroupName(app)) # <<>>
                        => pub'[r].has_rules]_vars

\* C8 witness: a departure was just handled and the peer's group is still
\* published with the one rule of its remaining unit.
C8_Witness ==
    /\ last = "rules_departed"
    /\ \E r \in down : \E u \in runits[AppA] :
          LET group == GroupsNamed(pub[r].alert_rules.groups, AggGroupName(AppA))
          IN  /\ runits[AppA] = {u}
              /\ group # <<>>
              /\ Len(group[1].rules) = 1
              /\ group[1].rules[1].labels.juju_unit = UnitName(AppA, u)

\* an alert-rule peer whose units all supply parseable rules with labels, and
\* that has rules
C9_WellFormed(ru, rd, app) ==
    /\ \A u \in ru[app] : rd[app][u] \in {"", "labelled"}
    /\ \E u \in ru[app] : rd[app][u] = "labelled"

\* C9, for the databag a handler leaves: the job of every target peer with a
\* hostname and the group of every well-formed alert-rule peer are published
C9_OthersPublished(bag) ==
    /\ \A P \in tapps :
          TargetsNow(P) # <<>> =>
             \E us \in IterationOrders(tunits[P]) :
                JobsNamed(bag.scrape_jobs, JobName(P))
                   = <<StaticScrapeJob(GetTargets(us, tdata[P], P), P)>>
    /\ \A Q \in rapps :
          C9_WellFormed(runits, rdata, Q) =>
             \E us \in IterationOrders(runits[Q]) :
                GroupsNamed(bag.alert_rules.groups, AggGroupName(Q))
                   = <<LabelledGroup(GetAlertRules(us, rdata[Q], Q).value, Q).group>>

\* C9: a malformed fragment of one peer (alert-rule text that cannot be
\* parsed, a rule without labels) never prevents the fragments of the other
\* peers from being published: the join handler publishes the job of every
\* target peer and the group of every well-formed alert-rule peer, and the
\* rules-changed handler of a well-formed peer publishes that peer's group on
\* every relation towards Prometheus, whatever the other peers supplied.
C9_ErrorsScopedToOnePeer ==
    [][/\ \A rel \in DownRels :
             (last' \in {"downstream_joined", "downstream_joined_raised"}
                /\ DownstreamJoined(rel))
                 => C9_OthersPublished(pub'[rel])
       /\ \A Q \in Apps : \A u \in UnitsOf(Q) :
             (last' \in {"rules_changed", "rules_changed_raised"}
                /\ (\E doc \in RuleDocs : RulesChanged(Q, u, doc))
                /\ C9_WellFormed(runits', rdata', Q))
                 => \A r \in down :
                       GroupsNamed(pub'[r].alert_rules.groups, AggGroupName(Q)) # <<>>]_vars

\* every read of one object's identifier returned the same text
C10_Stable == \A i \in 1 .. Len(topos) : \A k \in 1 .. Len(topos[i].ids) :
                  topos[i].ids[k] = topos[i].ids[1]

\* the pairs of objects of one class whose identifier has been read
C10_Pairs ==
    {p \in (1 .. Len(topos)) \X (1 .. Len(topos)) :
        /\ topos[p[1]].cls = topos[p[2]].cls
        /\ topos[p[1]].ids # <<>> /\ topos[p[2]].ids # <<>>}

\* C10: two topologies that differ in model, model_uuid, application or unit
\* never have the same identifier, and repeated reads of the identifier of
\* one topology return the same text.
C10_IdentifierInjective ==
    /\ C10_Stable
    /\ \A p \in C10_Pairs :
          LET a == topos[p[1]].t
              b == topos[p[2]].t
          IN  <<a.model, a.model_uuid, a.application, a.unit>>
                 # <<b.model, b.model_uuid, b.application, b.unit>>
              => topos[p[1]].ids[1] # topos[p[2]].ids[1]

\* the fields the identifier of an object of class cls is built from
C10_Key(cls, t) ==
    IF cls = "ProviderTopology"
    THEN <<t.model, t.model_uuid, t.application, t.charm_name>>
    ELSE <<t.model, Prefix(t.model_uuid, UuidPrefixLen), t.application, t.unit>>

\* C10 as the code has it: the identifier of a ProviderTopology is injective
\* over (model, model_uuid, application, charm_name) and does not depend on the
\* unit; the identifier of an AggregatorTopology is injective over (model, the
\* first seven characters of model_uuid, application, unit) and does not
\* depend on the rest of model_uuid; repeated reads return the same text.
C10_IdentifierInjectiveOverKey ==
    /\ C10_Stable
    /\ \A p \in C10_Pairs :
          (topos[p[1]].ids[1] = topos[p[2]].ids[1])
             <=> (C10_Key(topos[p[1]].cls, topos[p[1]].t)
                    = C10_Key(topos[p[2]].cls, topos[p[2]].t))

\* C10 witness: two ProviderTopology objects that differ only in their unit,
\* each read twice, with one and the same identifier.
C10_Witness ==
    /\ Len(topos) = 2
    /\ topos[1].cls = "ProviderTopology" /\ topos[2].cls = "ProviderTopology"
    /\ topos[1].t.unit # topos[2].t.unit
    /\ [topos[1].t EXCEPT !.unit = <<>>] = [topos[2].t EXCEPT !.unit = <<>>]
    /\ Len(topos[1].ids) = MaxCalls /\ Len(topos[2].ids) = MaxCalls
    /\ topos[1].ids[1] = topos[2].ids[1]

\* the job names among the jobs that jobs() returns for provider relation r
C11_JobNames(r) ==
    {job["job_name"] : job \in {j \in Range(StaticScrapeConfig(module_globals, prels[r]).value) :
                                   "job_name" \in DOMAIN j}}

\* C11: for any two provider relations whose scrape_metadata differ, no job
\* that jobs() returns for one has the job_name of a job returned for the
\* other.
C11_JobNamesNeverCollide ==
    \A r1 \in ProvRels : \A r2 \in ProvRels \ {r1} :
        prels[r1].scrape_metadata # prels[r2].scrape_metadata
            => C11_JobNames(r1) \cap C11_JobNames(r2) = {}

\* the fields of scrape_metadata that the job name prefix is built from
C11_PrefixKey(scrape_metadata) ==
    LET t == FromRelationData(scrape_metadata)
    IN  <<t.model, t.model_uuid, t.application, t.charm_name>>

\* C11 as the code has it: for any two provider relations that both publish
\* scrape_metadata, the jobs returned for one share no job_name with the jobs
\* returned for the other if the two scrape_metadata differ in model,
\* model_uuid, application or charm_name; and if they differ in unit alone,
\* jobs declared under the same name get the same job_name.
C11_JobNamesCollideOnlyOnPrefixKey ==
    \A r1 \in ProvRels : \A r2 \in ProvRels \ {r1} :
        (prels[r1].scrape_metadata # EmptyDict /\ prels[r2].scrape_metadata # EmptyDict)
        => /\ C11_PrefixKey(prels[r1].scrape_metadata)
                 # C11_PrefixKey(prels[r2].scrape_metadata)
              => C11_JobNames(r1) \cap C11_JobNames(r2) = {}
           /\ (/\ C11_PrefixKey(prels[r1].scrape_metadata)
                     = C11_PrefixKey(prels[r2].scrape_metadata)
               /\ prels[r1].scrape_jobs = prels[r2].scrape_jobs
               /\ prels[r1].units # {} /\ prels[r2].units # {})
              => C11_JobNames(r1) = C11_JobNames(r2)

\* C11 witness: two providers of different applications both declared a job
\* under the same name, and jobs() returned one job for each.
C11_Witness ==
    /\ ~cjobs.raises
    /\ prels[1].scrape_jobs = <<JobWild>> /\ prels[2].scrape_jobs = <<JobWild>>
    /\ prels[1].scrape_metadata # EmptyDict /\ prels[2].scrape_metadata # EmptyDict
    /\ prels[1].app # prels[2].app
    /\ Len(cjobs.value) = 2
    /\ cjobs.value[1]["job_name"] # cjobs.value[2]["job_name"]

\* every job a provider has written into scrape_jobs
C12_PublishedJobs == UNION {Range(prels[r].scrape_jobs) : r \in ProvRels}

\* C12: sanitizing a job keeps exactly the job's allow-listed fields with
\* their values, drops every other field, and fills metrics_path and
\* static_configs from the default when the job omits them; sanitizing the
\* job {} gives metrics_path = /metrics and one static config targeting *:80.
C12_SanitizeKeepsAllowListed ==
    \A job \in C12_PublishedJobs \cup {EmptyDict} :
        LET sanitized == SanitizeScrapeConfiguration(module_globals, job)
        IN  /\ DOMAIN sanitized =
                   (DOMAIN job \cap ALLOWED_KEYS) \cup {"metrics_path", "static_configs"}
            /\ \A k \in DOMAIN job \cap ALLOWED_KEYS : sanitized[k] = job[k]
            /\ \A k \in {"metrics_path", "static_configs"} \ DOMAIN job :
                   sanitized[k] = DEFAULT_JOB[k]
            /\ job = EmptyDict
                   => sanitized = [metrics_path |-> <<"/", "m", "e", "t", "r", "i", "c", "s">>,
                                   static_configs |->
                                       <<[targets |-> <<<<"*", ":", "8", "0">>>>]>>]

\* C12 witness: one provider published the job {} and another a job with a
\* field outside the allow-list, and jobs() returned the first with the
\* default metrics_path and the second without that field.
C12_Witness ==
    /\ prels[1].scrape_jobs = <<JobEmpty>> /\ prels[1].scrape_metadata # EmptyDict
    /\ prels[2].scrape_jobs = <<JobMixed>> /\ prels[2].scrape_metadata # EmptyDict
    /\ "honor_labels" \in DOMAIN JobMixed
    /\ ~cjobs.raises /\ Len(cjobs.value) = 2
    /\ cjobs.value[1]["metrics_path"] = MetricsText
    /\ "honor_labels" \notin DOMAIN cjobs.value[2]

\* C13: every job returned by jobs() contains only allow-listed fields,
\* whatever the peer wrote into scrape_jobs and whether or not the peer has
\* published scrape_metadata.
C13_ReturnedJobsAllowListed ==
    \A i \in 1 .. Len(cjobs.value) : DOMAIN cjobs.value[i] \subseteq ALLOWED_KEYS

\* the (relation, job index) pairs of the jobs that jobs() labelled: the
\* relation has units, scrape_jobs and scrape_metadata, and no target raised
C14_LabelledJobs ==
    {ri \in ProvRels \X (1 .. 1) :
        /\ prels[ri[1]].units # {}
        /\ prels[ri[1]].scrape_metadata # EmptyDict
        /\ ri[2] <= Len(prels[ri[1]].scrape_jobs)
        /\ ~StaticScrapeConfig(module_globals, prels[ri[1]]).raises}

\* the static configs of the sanitized job ri
C14_StaticConfigsOf(ri) ==
    SanitizeScrapeConfiguration(module_globals, prels[ri[1]].scrape_jobs[ri[2]])["static_configs"]

\* the groups of the labelled job ri
C14_GroupsOf(ri) == StaticScrapeConfig(module_globals, prels[ri[1]]).value[ri[2]]["static_configs"]

\* the static config of job ri has a wildcard target
C14_HasWildcard(ri) ==
    /\ Len(C14_StaticConfigsOf(ri)) = 1
    /\ \E t \in Range(DictGet(C14_StaticConfigsOf(ri)[1], "targets", <<>>)) : IsWildcard(t)

\* the wildcard half of C14: one group per known unit address, carrying that
\* unit's juju_unit label and address:port for every declared wildcard port
C14_PerUnitGroups(ri) ==
    LET config == C14_StaticConfigsOf(ri)[1]
        targets == DictGet(config, "targets", <<>>)
        fixed == SelectSeq(targets, LAMBDA t : ~IsWildcard(t))
        ports == WildcardPorts(targets)
        hosts == RelationHosts(prels[ri[1]])
        groups == C14_GroupsOf(ri)
    IN  /\ Len(groups) = Len(hosts) + (IF fixed # <<>> THEN 1 ELSE 0)
        /\ \A h \in 1 .. Len(hosts) :
              LET mine == {g \in 1 .. Len(groups) :
                              /\ "juju_unit" \in DOMAIN groups[g]["labels"]
                              /\ groups[g]["labels"]["juju_unit"] = hosts[h].unit_name}
              IN  /\ Cardinality(mine) = 1
                  /\ \A g \in mine :
                        /\ Len(groups[g]["targets"]) = Len(ports)
                        /\ \A p \in 1 .. Len(ports) :
                              groups[g]["targets"][p]
                                  = hosts[h].address \o <<":">> \o ports[p]

\* the groups of job ri made of the static config's fixed-host targets
C14_FixedGroups(ri) ==
    LET targets == DictGet(C14_StaticConfigsOf(ri)[1], "targets", <<>>)
        fixed == SelectSeq(targets, LAMBDA t : ~IsWildcard(t))
        groups == C14_GroupsOf(ri)
    IN  IF fixed = <<>> THEN {}
        ELSE {g \in 1 .. Len(groups) : groups[g]["targets"] = fixed}

\* the fixed-host targets form a single group with the peer's topology labels
C14_OneFixedGroup(ri) ==
    LET targets == DictGet(C14_StaticConfigsOf(ri)[1], "targets", <<>>)
        fixed == SelectSeq(targets, LAMBDA t : ~IsWildcard(t))
        groups == C14_GroupsOf(ri)
        t == FromRelationData(prels[ri[1]].scrape_metadata)
    IN  fixed # <<>>
        => /\ Cardinality(C14_FixedGroups(ri)) = 1
           /\ \A g \in C14_FixedGroups(ri) :
                 /\ groups[g]["labels"]["juju_model"] = t.model
                 /\ groups[g]["labels"]["juju_model_uuid"] = t.model_uuid
                 /\ groups[g]["labels"]["juju_application"] = t.application
                 /\ groups[g]["labels"]["juju_charm"] = t.charm_name

\* C14: for a static config with wildcard targets *:PORT, the labelled job
\* has one group per known unit address, with that unit's juju_unit label and
\* address:port for every wildcard port; the fixed-host targets form a single
\* group with the peer's topology labels and no juju_unit label.
C14_WildcardExpansion ==
    \A ri \in C14_LabelledJobs :
        C14_HasWildcard(ri)
        => /\ C14_PerUnitGroups(ri)
           /\ C14_OneFixedGroup(ri)
           /\ \A g \in C14_FixedGroups(ri) :
                 "juju_unit" \notin DOMAIN C14_GroupsOf(ri)[g]["labels"]

\* C14 as the code has it: the same, except that the group of the fixed-host
\* targets has a juju_unit label exactly when the peer declared one in the
\* static config's labels, with the value the peer declared.
C14_WildcardExpansionKeepingDeclaredUnit ==
    \A ri \in C14_LabelledJobs :
        C14_HasWildcard(ri)
        => /\ C14_PerUnitGroups(ri)
           /\ C14_OneFixedGroup(ri)
           /\ \A g \in C14_FixedGroups(ri) :
                 LET declared == DictGet(C14_StaticConfigsOf(ri)[1], "labels", EmptyDict)
                     labels == C14_GroupsOf(ri)[g]["labels"]
                 IN  /\ "juju_unit" \in DOMAIN labels <=> "juju_unit" \in DOMAIN declared
                     /\ "juju_unit" \in DOMAIN labels
                            => labels["juju_unit"] = declared["juju_unit"]

\* C14 witness: a job with two wildcard targets and a fixed-host target was
\* labelled for a peer with two known unit addresses, giving three groups.
C14_Witness ==
    /\ prels[1].scrape_jobs = <<JobMixed>>
    /\ <<1, 1>> \in C14_LabelledJobs
    /\ C14_HasWildcard(<<1, 1>>)
    /\ Len(RelationHosts(prels[1])) = 2
    /\ ~cjobs.raises
    /\ Len(cjobs.value[1]["static_configs"]) = 3
    /\ Len(cjobs.value[1]["static_configs"][2]["targets"]) = 2

\* a per-unit group was emitted for job ri: some group carries the name of a
\* known unit as juju_unit and targets at that unit's address
C15_PerUnitGroupEmitted(ri) ==
    LET groups == C14_GroupsOf(ri)
        hosts == RelationHosts(prels[ri[1]])
    IN  \E g \in 1 .. Len(groups) : \E h \in 1 .. Len(hosts) :
            /\ "juju_unit" \in DOMAIN groups[g]["labels"]
            /\ groups[g]["labels"]["juju_unit"] = hosts[h].unit_name
            /\ SubSeq(groups[g]["targets"][1], 1, Len(hosts[h].address))
                   = hosts[h].address

\* C15: labelling a job appends exactly one instance relabel rule and places
\* it after all user-declared relabel rules; its source labels are juju_model,
\* juju_model_uuid, juju_application in that order, followed by juju_unit if
\* and only if a per-unit static-config group was emitted for the job.
C15_OneInstanceRelabelLast ==
    \A ri \in C14_LabelledJobs :
        LET declared == DictGet(prels[ri[1]].scrape_jobs[ri[2]], "relabel_configs", <<>>)
            relabel_configs == StaticScrapeConfig(module_globals, prels[ri[1]]).value[ri[2]]["relabel_configs"]
            appended == relabel_configs[Len(relabel_configs)]
        IN  /\ Len(relabel_configs) = Len(declared) + 1
            /\ SubSeq(relabel_configs, 1, Len(declared)) = declared
            /\ appended["target_label"] = "instance"
            /\ appended["separator"] = "_"
            /\ appended["source_labels"] =
                   IF C15_PerUnitGroupEmitted(ri)
                   THEN <<"juju_model", "juju_model_uuid", "juju_application", "juju_unit">>
                   ELSE <<"juju_model", "juju_model_uuid", "juju_application">>

\* C15 witness: jobs() labelled a job without static configs, for which no
\* group was emitted, and a job with a user-declared relabel rule and a
\* wildcard target, for which per-unit groups were emitted.
C15_Witness ==
    /\ prels[1].scrape_jobs = <<JobNoConfigs>> /\ prels[2].scrape_jobs = <<JobMixed>>
    /\ <<1, 1>> \in C14_LabelledJobs /\ <<2, 1>> \in C14_LabelledJobs
    /\ RelationHosts(prels[1]) # <<>>
    /\ ~C15_PerUnitGroupEmitted(<<1, 1>>) /\ C15_PerUnitGroupEmitted(<<2, 1>>)
    /\ ~cjobs.raises /\ Len(cjobs.value) = 2
    /\ Len(cjobs.value[1]["relabel_configs"]) = 1
    /\ Len(cjobs.value[2]["relabel_configs"]) = 2
    /\ cjobs.value[2]["relabel_configs"][1] = UserRelabel

\* target has exactly one ':' separator
C16_WellFormed(target) == Cardinality({i \in 1 .. Len(target) : target[i] = ":"}) = 1

\* the targets without exactly one ':' that the jobs of relation r declare
C16_MalformedTargets(r) ==
    {target \in UNION {Range(DictGet(config, "targets", <<>>)) :
                          config \in UNION {Range(DictGet(job, "static_configs", <<>>)) :
                                               job \in Range(prels[r].scrape_jobs)}} :
        ~C16_WellFormed(target)}

\* the targets of all groups of all jobs in a list of jobs
C16_PlacedTargets(jobs) ==
    UNION {Range(DictGet(group, "targets", <<>>)) :
              group \in UNION {Range(DictGet(job, "static_configs", <<>>)) :
                                  job \in Range(jobs)}}

\* C16: a target without exactly one ':' is rejected, or reported as an
\* error, for that target: no job that jobs() returns holds such a target
\* in a group, and when jobs() reports the error by raising, it is not at
\* the cost of a relation with units and jobs that declares no such target.
C16_MalformedTargetRejected ==
    /\ \A r \in ProvRels :
          prels[r].units # {}
          => C16_MalformedTargets(r) \cap C16_PlacedTargets(cjobs.value) = {}
    /\ cjobs.raises
          => \A r \in ProvRels :
                (prels[r].units # {} /\ prels[r].scrape_jobs # <<>>)
                => C16_MalformedTargets(r) # {}

\* the rule files a call of add_path reads
C17_FilesRead(path, recursive) ==
    IF path \in RuleDirs
    THEN MultiSuffixGlob(RuleFilePaths, path, RuleSuffixes, recursive)
    ELSE IF path \in RuleFilePaths THEN {path} ELSE {}

\* the file parses to a mapping with groups, or with alert and expr
C17_HasRuleShape(file) ==
    /\ file.parses
    /\ file.doc.type = "dict"
    /\ \/ "groups" \in DOMAIN file.doc.dict
       \/ {"alert", "expr"} \subseteq DOMAIN file.doc.dict

\* the groups the files fs give when each is read on its own for a call of
\* add_path(path) on collection c
C17_GroupsOfFiles(c, path, fs) ==
    UNION {Range(FromFile(alert_groups[c].has_topology, alert_groups[c].topology,
                          IF path \in RuleDirs THEN path ELSE PathParent(path),
                          f, rfiles[f]).value) : f \in fs}

\* the groups the step added to collection c
C17_Added(c) ==
    Range(SubSeq(alert_groups'[c].alert_groups,
                 Len(alert_groups[c].alert_groups) + 1,
                 Len(alert_groups'[c].alert_groups)))

\* C17: a rule file that parses to neither the official nor the single-rule
\* shape (null, a scalar and a list included) is skipped, and the groups of
\* the other files of the same add_path call are collected without an error
\* reaching the caller.
C17_NeitherShapeSkipped ==
    [][radds' # radds
          => LET call == radds'[Len(radds')]
                 c == call.c
                 read == C17_FilesRead(call.path, call.recursive)
                 neither == {f \in read : rfiles[f].parses /\ ~C17_HasRuleShape(rfiles[f])}
             IN  neither # {}
                 => /\ ~call.raises
                    /\ C17_Added(c) = C17_GroupsOfFiles(c, call.path, read \ neither)]_vars

\* C18: adding a directory that holds files whose YAML cannot be parsed
\* together with valid rule files yields exactly the groups of the valid
\* files and raises no error; a path that is neither a file nor a directory
\* adds nothing and raises no error.
C18_UnparseableSkipped ==
    [][radds' # radds
          => LET call == radds'[Len(radds')]
                 c == call.c
                 read == C17_FilesRead(call.path, call.recursive)
                 valid == {f \in read : C17_HasRuleShape(rfiles[f])}
                 unparseable == {f \in read : ~rfiles[f].parses}
             IN  /\ (call.path \in RuleDirs /\ read = valid \cup unparseable)
                    => /\ ~call.raises
                       /\ C17_Added(c) = C17_GroupsOfFiles(c, call.path, valid)
                 /\ (call.path \notin RuleDirs /\ call.path \notin RuleFilePaths)
                    => /\ ~call.raises
                       /\ alert_groups' = alert_groups]_vars

\* C18 witness: a directory with an unparseable file next to two valid ones
\* was added, giving the two groups, and then a path that does not exist.
C18_Witness ==
    /\ ~rfiles[FileARules].parses
    /\ C17_HasRuleShape(rfiles[FileARule]) /\ C17_HasRuleShape(rfiles[FileSubC])
    /\ Len(radds) = 2
    /\ radds[1] = [c |-> 1, path |-> RootDir, recursive |-> TRUE, raises |-> FALSE]
    /\ radds[2] = [c |-> 1, path |-> MissingPath, recursive |-> FALSE, raises |-> FALSE]
    /\ Len(alert_groups[1].alert_groups) = 2

\* collection c was filled by one call of add_path, on a directory, that did
\* not raise
C19_FilledFromDir(c) ==
    /\ Cardinality({i \in 1 .. Len(radds) : radds[i].c = c}) = 1
    /\ \A i \in 1 .. Len(radds) :
          radds[i].c = c => radds[i].path \in RuleDirs /\ ~radds[i].raises

\* the call that filled collection c
C19_CallOf(c) == radds[CHOOSE i \in 1 .. Len(radds) : radds[i].c = c]

\* the directories whose rule files gave groups to collection c
C19_DirsRead(c) ==
    {PathParent(f) :
        f \in {g \in C17_FilesRead(C19_CallOf(c).path, C19_CallOf(c).recursive) :
                  C17_HasRuleShape(rfiles[g])}}

\* C19: when a directory is traversed, all rule files that share a directory
\* contribute to one combined group, so the result holds one group per
\* directory, named from the topology identifier, the sanitized relative path
\* and the original group name.
C19_OneGroupPerDirectory ==
    \A c \in Collections :
        C19_FilledFromDir(c)
        => /\ Len(alert_groups[c].alert_groups) = Cardinality(C19_DirsRead(c))
           /\ \A d \in C19_DirsRead(c) :
                 \E g \in Range(alert_groups[c].alert_groups) :
                     /\ alert_groups[c].has_topology
                        => IsSubstring(ProviderIdentifier(alert_groups[c].topology), g["name"])
                     /\ IsSubstring(RelPath(d, C19_CallOf(c).path), g["name"])

\* the names of the groups of collection c
C20_NamesOf(c) == {g["name"] : g \in Range(alert_groups[c].alert_groups)}

\* C20: alert group names never collide: within one AlertRules collection the
\* groups loaded from different sub-paths or different files have pairwise
\* distinct names, and the groups of peers with different topologies have
\* distinct names.
C20_GroupNamesNeverCollide ==
    /\ \A c \in Collections :
          C19_FilledFromDir(c)
          => \A i, j \in 1 .. Len(alert_groups[c].alert_groups) :
                 i # j => alert_groups[c].alert_groups[i]["name"]
                              # alert_groups[c].alert_groups[j]["name"]
    /\ \A c1, c2 \in Collections :
          (/\ alert_groups[c1].has_topology /\ alert_groups[c2].has_topology
           /\ alert_groups[c1].topology # alert_groups[c2].topology)
          => C20_NamesOf(c1) \cap C20_NamesOf(c2) = {}

\* as_promql_label_dict of an object of class cls
C29_PromqlLabelDict(cls, t) ==
    IF cls = "ProviderTopology" THEN ProviderLabelDict(t) ELSE AggregatorLabelDict(t)

\* the label sets derived from the object topos[i]: as_dict() with and without
\* the renaming of charm_name, and as_promql_label_dict() of its class
C29_LabelSets(i) ==
    {as_dict(topos[i].t, EmptyDict),
     as_dict(topos[i].t, [charm_name |-> "charm"]),
     C29_PromqlLabelDict(topos[i].cls, topos[i].t)}

C29_KeysOf(items) == {items[n].k : n \in 1 .. Len(items)}
C29_UnitKeys == {"unit", "juju_unit"}
C29_CharmKeys == {"charm_name", "charm", "juju_charm_name", "juju_charm"}

\* C29: when unit or charm_name of a topology is empty, no label set derived
\* from it (as_dict, as_promql_label_dict of either class) has a key for it, so
\* no label set maps a unit or charm key to the empty text; the keys of model,
\* model_uuid and application are in every label set.
C29_AbsentFieldsNeverEmitted ==
    \A i \in 1 .. Len(topos) : \A items \in C29_LabelSets(i) :
        /\ topos[i].t.unit = <<>> => C29_KeysOf(items) \cap C29_UnitKeys = {}
        /\ topos[i].t.charm_name = <<>> => C29_KeysOf(items) \cap C29_CharmKeys = {}
        /\ \A n \in 1 .. Len(items) :
              items[n].k \in C29_UnitKeys \cup C29_CharmKeys => items[n].v # <<>>
        /\ \/ {"model", "model_uuid", "application"} \subseteq C29_KeysOf(items)
           \/ {"juju_model", "juju_model_uuid", "juju_application"}
                  \subseteq C29_KeysOf(items)

\* C29 witness: a ProviderTopology with neither unit nor charm_name next to an
\* AggregatorTopology without unit.
C29_Witness ==
    /\ Len(topos) = 2
    /\ topos[1].cls = "ProviderTopology"
    /\ topos[1].t.unit = <<>> /\ topos[1].t.charm_name = <<>>
    /\ topos[2].cls = "AggregatorTopology"
    /\ topos[2].t.unit = <<>>

\* C30: the label set of an AggregatorTopology carries juju_model_uuid cut to
\* its first seven characters and keeps juju_unit; the label set of a
\* ProviderTopology carries the whole model uuid and has no juju_unit, even
\* when the topology has a unit.
C30_OnlyAggregatorShortens ==
    \A i \in 1 .. Len(topos) :
        LET t == topos[i].t
            d == ItemsToDict(C29_PromqlLabelDict(topos[i].cls, t))
        IN  IF topos[i].cls = "AggregatorTopology"
            THEN /\ d["juju_model_uuid"] = Prefix(t.model_uuid, UuidPrefixLen)
                 /\ t.unit # <<>> =>
                       "juju_unit" \in DOMAIN d /\ d["juju_unit"] = t.unit
            ELSE /\ d["juju_model_uuid"] = t.model_uuid
                 /\ "juju_unit" \notin DOMAIN d

\* C30 witness: an AggregatorTopology and a ProviderTopology of one unit and
\* one model uuid that is longer than seven characters.
C30_Witness ==
    /\ Len(topos) = 2
    /\ topos[1].cls = "AggregatorTopology" /\ topos[2].cls = "ProviderTopology"
    /\ topos[1].t.unit # <<>> /\ topos[2].t.unit = topos[1].t.unit
    /\ topos[1].t.model_uuid = topos[2].t.model_uuid
    /\ Len(topos[1].t.model_uuid) > UuidPrefixLen

\* relation r has no remote unit, or no scrape_jobs or an empty list
C25_NothingToScrape(r) == prels[r].units = {} \/ prels[r].scrape_jobs = <<>>

\* relation r has units and scrape_jobs but no scrape_metadata
C25_NoMetadataYet(r) ==
    ~C25_NothingToScrape(r) /\ prels[r].scrape_metadata = EmptyDict

\* C25: jobs() returns no job for a relation without remote units or without
\* scrape_jobs (absent or empty): what it returns is what the other relations
\* give, in order; and it does not raise over a relation that has scrape_jobs
\* but no scrape_metadata: when it raises, a relation with units, scrape_jobs
\* and scrape_metadata is there.
C25_ToleratesPartialInformation ==
    /\ \A r \in ProvRels :
          C25_NothingToScrape(r) \/ C25_NoMetadataYet(r)
              => ~StaticScrapeConfig(module_globals, prels[r]).raises
    /\ cjobs.raises =>
          \E r \in ProvRels : ~C25_NothingToScrape(r) /\ ~C25_NoMetadataYet(r)
    /\ ~cjobs.raises =>
          cjobs.value = Concat([r \in ProvRels |->
                                  IF C25_NothingToScrape(r) THEN <<>>
                                  ELSE StaticScrapeConfig(module_globals, prels[r]).value])

\* C25 witness: relation 1 has a unit and a job but no scrape_metadata,
\* relation 2 has a job and scrape_metadata but no unit; jobs() returned the
\* job of relation 1 alone.
C25_Witness ==
    /\ prels[1].units # {} /\ prels[1].scrape_jobs = <<JobMixed>>
    /\ prels[1].scrape_metadata = EmptyDict
    /\ prels[2].units = {} /\ prels[2].scrape_jobs = <<JobWild>>
    /\ prels[2].scrape_metadata # EmptyDict
    /\ ~cjobs.raises /\ Len(cjobs.value) = 1

\* 'juju_' + identifier + '_prometheus_scrape'
C26_Prefix(scrape_metadata) ==
    <<"j", "u", "j", "u", "_">> \o ProviderIdentifier(FromRelationData(scrape_metadata))
        \o <<"_", "p", "r", "o", "m", "e", "t", "h", "e", "u", "s",
              "_", "s", "c", "r", "a", "p", "e">>

\* C26: the job_name of a job jobs() labelled is the prefix alone when the
\* job declares no job_name or an empty one, and prefix, '_' and the declared
\* job_name otherwise; the prefix is 'juju_', the identifier of the topology
\* in scrape_metadata and '_prometheus_scrape'.
C26_JobNameFromPrefix ==
    \A r \in ProvRels :
        LET returned == StaticScrapeConfig(module_globals, prels[r])
            declared == prels[r].scrape_jobs
            prefix == C26_Prefix(prels[r].scrape_metadata)
        IN  (/\ ~C25_NothingToScrape(r) /\ ~C25_NoMetadataYet(r)
             /\ ~returned.raises)
            => /\ Len(returned.value) = Len(declared)
               /\ \A i \in 1 .. Len(declared) :
                     returned.value[i]["job_name"] =
                        IF "job_name" \in DOMAIN declared[i]
                              /\ declared[i]["job_name"] # <<>>
                        THEN prefix \o <<"_">> \o declared[i]["job_name"]
                        ELSE prefix

\* C26 witness: jobs() returned a job declared with an empty job_name under
\* the prefix alone, then a job declared with the job_name n.
C26_Witness ==
    /\ ~cjobs.raises /\ Len(cjobs.value) = 2
    /\ prels[1].scrape_jobs = <<JobEmptyName>> /\ prels[2].scrape_jobs = <<JobWild>>
    /\ prels[1].scrape_metadata # EmptyDict /\ prels[2].scrape_metadata # EmptyDict
    /\ cjobs.value[1]["job_name"] = C26_Prefix(prels[1].scrape_metadata)
    /\ cjobs.value[2]["job_name"] =
          C26_Prefix(prels[2].scrape_metadata) \o <<"_">> \o JobN

\* the topology labels of a provider topology t, from its fields
C27_TopologyLabels(t) ==
    DictUpdate([juju_model |-> t.model, juju_model_uuid |-> t.model_uuid,
                juju_application |-> t.application],
               IF t.charm_name # <<>> THEN [juju_charm |-> t.charm_name] ELSE EmptyDict)

\* the rules written in the rule files
C27_RulesOfDoc(d) ==
    IF "groups" \in DOMAIN d
    THEN UNION {Range(g["rules"]) : g \in Range(d["groups"])}
    ELSE IF {"alert", "expr"} \subseteq DOMAIN d THEN {d} ELSE {}
C27_SourceRules ==
    UNION {C27_RulesOfDoc(rfiles[f].doc.dict) :
              f \in {g \in RuleFilePaths : C17_HasRuleShape(rfiles[g])}}

\* labels is declared overlaid with the labels forced, and nothing else
C27_Overlaid(labels, declared, forced) ==
    /\ DOMAIN labels = DOMAIN declared \cup DOMAIN forced
    /\ \A k \in DOMAIN forced : labels[k] = forced[k]
    /\ \A k \in DOMAIN declared \ DOMAIN forced : labels[k] = declared[k]

\* every rule of every collection has a labels mapping, which is the labels
\* of a rule of that name in the files overlaid with the topology labels of
\* the collection, when it has a topology
C27_RulesLabelled ==
    \A c \in Collections : \A g \in Range(alert_groups[c].alert_groups) :
        \A rule \in Range(g["rules"]) :
            /\ "labels" \in DOMAIN rule
            /\ \E source \in C27_SourceRules :
                  /\ source["alert"] = rule["alert"]
                  /\ C27_Overlaid(rule["labels"],
                                  DictGet(source, "labels", EmptyDict),
                                  IF alert_groups[c].has_topology
                                  THEN C27_TopologyLabels(alert_groups[c].topology)
                                  ELSE EmptyDict)

\* every group of every labelled job has the labels the peer declared
\* overlaid with the topology labels of scrape_metadata and, for the group of
\* a unit, with that unit's name as juju_unit
C27_GroupsLabelled ==
    \A ri \in C14_LabelledJobs :
        LET groups == C14_GroupsOf(ri)
            topology == C27_TopologyLabels(FromRelationData(prels[ri[1]].scrape_metadata))
            hosts == RelationHosts(prels[ri[1]])
        IN  \A g \in 1 .. Len(groups) :
                \E config \in Range(C14_StaticConfigsOf(ri)) :
                    LET declared == DictGet(config, "labels", EmptyDict)
                    IN  \/ /\ g \in C14_FixedGroups(ri)
                           /\ C27_Overlaid(groups[g]["labels"], declared, topology)
                        \/ \E h \in 1 .. Len(hosts) :
                              C27_Overlaid(groups[g]["labels"], declared,
                                  DictUpdate(topology, [juju_unit |-> hosts[h].unit_name]))

\* C27: the topology wins on key collision: every loaded alert rule and every
\* group of a labelled job has each topology label at the topology's value
\* even when the user supplied a label of that key, every user label of
\* another key is kept, and a rule without labels mapping gets one.
C27_TopologyWins == C27_RulesLabelled /\ C27_GroupsLabelled

\* C27 witness: a rule and a static config that both declare juju_model = u
\* were labelled and carry the model of the topology instead, next to the
\* user's labels severity and env; a rule without labels was loaded by the
\* collection that has no topology and has an empty labels mapping.
C27_Witness ==
    /\ rfiles[FileSubC] = Parsed(DocSingleLabelled(AlertA))
    /\ Len(radds) = 2 /\ radds[1].c = 1 /\ radds[2].c = 2
    /\ radds[1].path = SubDir /\ radds[2].path = RootDir
    /\ alert_groups[1].alert_groups[1]["rules"][1]["labels"]["juju_model"] = ModelName
    /\ alert_groups[1].alert_groups[1]["rules"][1]["labels"]["severity"] = Page
    /\ \E g \in Range(alert_groups[2].alert_groups) : g["rules"][1]["labels"] = EmptyDict
    /\ prels[1].scrape_jobs = <<JobMixed>>
    /\ ~cjobs.raises /\ Len(cjobs.value) = 1
    /\ Len(cjobs.value[1]["static_configs"]) = 3
    /\ \A g \in 1 .. 3 :
          /\ cjobs.value[1]["static_configs"][g]["labels"]["juju_model"] = ModelName
          /\ cjobs.value[1]["static_configs"][g]["labels"]["env"] = EnvX
    /\ ModelName # UserModel

\* the exception the claim names for a construction of kind over
\* relation_name, or none
C24_Expected(kind, relation_name) ==
    CASE relation_name \notin DOMAIN meta -> "RelationNotFoundError"
      [] relation_name \in DOMAIN meta
           /\ meta[relation_name].interface # "prometheus-scrape"
           -> "RelationInterfaceMismatchError"
      [] relation_name \in DOMAIN meta
           /\ meta[relation_name].interface = "prometheus-scrape"
           /\ meta[relation_name].role
                 # (IF kind = "MetricsEndpointConsumer" THEN "requires" ELSE "provides")
           -> "RelationRoleMismatchError"
      [] OTHER -> "none"

\* C24: constructing MetricsEndpointConsumer or MetricsEndpointProvider over
\* a relation name that is absent from the metadata, that has another
\* interface than prometheus_scrape, or that has the wrong role raises
\* RelationNotFoundError, RelationInterfaceMismatchError or
\* RelationRoleMismatchError, the first that applies in that order; no
\* observer is registered by a construction that raised and no handler of it
\* ever touches relation data.
C24_WrongRelationFatalAtSetup ==
    \A i \in 1 .. Len(objs) :
        /\ objs[i].error = C24_Expected(objs[i].kind, objs[i].relation_name)
        /\ objs[i].error # "none" => objs[i].observers = {} /\ objs[i].handled = {}

\* C24 witness: a provider over a relation that is not declared, a consumer
\* over a relation of another interface and of the wrong role, and a consumer
\* over a prometheus-scrape relation the charm provides: the three errors.
C24_Witness ==
    /\ Len(objs) = 3
    /\ DOMAIN meta = RelationNames
    /\ meta["metrics-endpoint"] = [interface |-> "http", role |-> "provides"]
    /\ meta["monitoring"] = [interface |-> "prometheus-scrape", role |-> "provides"]
    /\ objs[1].kind = "MetricsEndpointProvider" /\ objs[1].relation_name = "db"
    /\ objs[1].error = "RelationNotFoundError"
    /\ objs[2].kind = "MetricsEndpointConsumer"
    /\ objs[2].relation_name = "metrics-endpoint"
    /\ objs[2].error = "RelationInterfaceMismatchError"
    /\ objs[3].kind = "MetricsEndpointConsumer" /\ objs[3].relation_name = "monitoring"
    /\ objs[3].error = "RelationRoleMismatchError"

\* the resolution state of the transformer
C21_State(tr) ==
    IF tr.disabled THEN "unavailable"
    ELSE IF tr.path # <<>> THEN "available" ELSE "unresolved"

\* C21: the resolution state of a PromqlTransformer moves only from
\* unresolved to available or to unavailable and never changes afterwards;
\* once unavailable no lookup of the tool is made again, and once available
\* the path stays the one resolved and no lookup is made again.
C21_ResolutionSticky ==
    [][/\ C21_State(transformer) # "unresolved" => transformer' = transformer
       /\ C21_State(transformer') # C21_State(transformer)
             => /\ C21_State(transformer) = "unresolved"
                /\ transformer'.lookups = transformer.lookups + 1]_vars

\* C21 witness: the tool was looked up once and not found; calls were made
\* since, the last with the resource there, and none looked it up again.
C21_Witness ==
    /\ C21_State(transformer) = "unavailable"
    /\ transformer.lookups = 1
    /\ applying.calls = MaxApplies
    /\ applying.pc = "returned"
    /\ applying.rules # NoRules
    /\ resource = "present"

\* the step is the end of a run of the tool that failed: subprocess.run
\* raised, or the tool exited with a code other than 0
C22_FailedRun ==
    /\ applying.pc = "exec"
    /\ applying' # applying
    /\ applying.tool.kind \in {"raises", "exit1"}

\* C22: when the run of the tool for a rule fails (the call raises or the
\* tool exits unsuccessfully), the rule's expr is left as it was, no error
\* reaches the caller and the rules after it are still processed.
C22_FailedRunLeavesExpr ==
    [][C22_FailedRun
          => /\ RuleAt(applying'.rules, applying.pos)["expr"]
                   = RuleAt(applying.rules, applying.pos)["expr"]
             /\ applying'.pc \in {"exec", "returned"}
             /\ applying'.pc = "exec" => applying'.pos > applying.pos
             /\ applying'.pc = "returned"
                   => \A k \in (applying.pos + 1) .. Len(RulePositions(applying.rules)) :
                         RuleTopology(RuleAt(applying.rules, k)) = EmptyDict]_vars

\* C23: a run of the tool that never ends does not keep the handler from
\* completing: a call of apply_label_matchers that waits for the tool
\* always gets past that run.
C23_InvocationHasDeadline ==
    (applying.pc = "exec") ~> (applying.pc # "exec")

\* the step is a run of set_scrape_job_spec by the leader that did not raise
C28_LeaderRan ==
    /\ pdata'.run.n # pdata.run.n
    /\ pdata'.run.leader /\ ~pdata'.run.raises

\* C28: as_dict returns the empty mapping when no group was collected and
\* {groups: the groups collected} otherwise, and set_scrape_job_spec writes
\* alert_rules into a relation exactly when at least one group was collected:
\* when none was, the key and its value stay as they were.
C28_AlertRulesOnlyWhenGroups ==
    [][C28_LeaderRan
          => LET groups == pdata'.run.groups
             IN  /\ pdata'.run.alert_rules_as_dict =
                       (IF groups = <<>> THEN EmptyDict ELSE [groups |-> groups])
                 /\ \A r \in ProvRels :
                       pdata'.rels[r].present
                       => IF groups # <<>>
                          THEN /\ "alert_rules" \in pdata'.rels[r].app.keys
                               /\ pdata'.rels[r].app.alert_rules = [groups |-> groups]
                          ELSE /\ "alert_rules" \in pdata'.rels[r].app.keys
                                     <=> "alert_rules" \in pdata.rels[r].app.keys
                               /\ pdata'.rels[r].app.alert_rules
                                     = pdata.rels[r].app.alert_rules]_vars

\* C28 witness: the installed revision holds no rule, the leader's last run
\* collected no group, and relation 1 still carries the alert_rules written
\* for an earlier revision while relation 2, joined since, has none.
C28_Witness ==
    /\ pdata.run.n = MaxRuns
    /\ pdata.run.leader /\ ~pdata.run.raises /\ pdata.run.groups = <<>>
    /\ pdata.rels[1].present /\ pdata.rels[2].present
    /\ "alert_rules" \in pdata.rels[1].app.keys
    /\ Len(pdata.rels[1].app.alert_rules["groups"]) = 3
    /\ pdata.rels[2].app.keys = {"scrape_metadata", "scrape_jobs"}

\* the rule carries none of the five topology labels
C31_CarriesNone(rule) ==
    \/ "labels" \notin DOMAIN rule
    \/ \A l \in Range(TOPOLOGY_LABELS) : l \notin DOMAIN rule["labels"]

\* the last call of apply_label_matchers could not resolve the tool: its
\* lookup gave None, then or before, or raised
C31_Unresolved == applying.calls > 0 /\ transformer.path = <<>>

\* C31: when the tool cannot be resolved a call of apply_label_matchers
\* returns the rule set it was given, every expr as it was, and runs no
\* process; and whatever the state of the tool, a rule that carries none of
\* juju_model, juju_model_uuid, juju_application, juju_charm and juju_unit
\* keeps its expr and the tool is never run for it.
C31_PassThroughWithoutTool ==
    /\ C31_Unresolved
          => /\ applying.pc = "returned"
             /\ applying.tool = NoTool
             /\ applying.rules \in RuleSets
    /\ \A k \in 1 .. Len(RulePositions(applying.rules)) :
          (C31_CarriesNone(RuleAt(applying.rules, k))
              /\ "expr" \in DOMAIN RuleAt(applying.rules, k))
             => /\ RuleAt(applying.rules, k)["expr"] = ExprUp
                /\ ~(applying.pc = "exec" /\ applying.pos = k)

\* the static config of job ri declares targets, all of them fixed hosts
C33_OnlyFixedTargets(ri) ==
    /\ Len(C14_StaticConfigsOf(ri)) = 1
    /\ DictGet(C14_StaticConfigsOf(ri)[1], "targets", <<>>) # <<>>
    /\ \A t \in Range(DictGet(C14_StaticConfigsOf(ri)[1], "targets", <<>>)) :
          ~IsWildcard(t)

\* C33: a static config that declares no wildcard target, only fixed-host
\* targets, produces no per-unit static-config group, and juju_unit is not
\* added to the source labels of the instance relabel rule.
C33_PerUnitGroupsOnlyForWildcards ==
    \A ri \in C14_LabelledJobs :
        C33_OnlyFixedTargets(ri)
        => LET relabel_configs ==
                   StaticScrapeConfig(module_globals, prels[ri[1]]).value[ri[2]]["relabel_configs"]
           IN  /\ ~C15_PerUnitGroupEmitted(ri)
               /\ "juju_unit" \notin
                      Range(relabel_configs[Len(relabel_configs)]["source_labels"])

\* C32: after any sequence of set_jobs, set_scrape_job_spec and jobs()
\* calls, and so of the _sanitize_scrape_configuration calls they make,
\* DEFAULT_JOB, with its static_configs list and the target list in it, and
\* ALLOWED_KEYS hold the values they were given at import.
C32_GlobalsNeverMutated ==
    /\ module_globals.DEFAULT_JOB = DEFAULT_JOB
    /\ module_globals.DEFAULT_JOB["static_configs"] = <<[targets |-> <<WildcardDefault>>]>>
    /\ module_globals.ALLOWED_KEYS = ALLOWED_KEYS

\* C32 witness: the charm has set an empty job, which sanitizes to a copy
\* sharing the lists of DEFAULT_JOB, set_scrape_job_spec has published it,
\* and jobs() has labelled a published empty job for two known units, three
\* times over.
C32_Witness ==
    /\ pdata.jobs = <<DEFAULT_JOB>>
    /\ "scrape_jobs" \in pdata.rels[1].app.keys
    /\ pdata.rels[1].app.scrape_jobs = <<DEFAULT_JOB>>
    /\ prels[1].scrape_jobs = <<JobEmpty>>
    /\ SharedWithDefault(module_globals, JobEmpty) = {"metrics_path", "static_configs"}
    /\ creads = MaxReads
    /\ ~cjobs.raises /\ Len(cjobs.value) = 1
    /\ Len(cjobs.value[1]["static_configs"]) = 2

\* the instance relabel rules among the relabel rules of a job
C38_InstanceRules(job) ==
    {i \in 1 .. Len(job["relabel_configs"]) :
        job["relabel_configs"][i]["target_label"] = "instance"}

\* C38: a call of jobs() made with the relation data as the call before it
\* found them returns what that call returned, and every labelled job it
\* returns carries exactly one instance relabel rule.
C38_ReadingRepeatable ==
    [][(prels' = prels /\ creads' = creads + 1 /\ creads >= 1)
          => /\ cjobs' = cjobs
             /\ \A i \in 1 .. Len(cjobs'.value) :
                   Cardinality(C38_InstanceRules(cjobs'.value[i])) = 1]_vars

\* C38 witness: jobs() was called three times on the same data of a
\* provider with a known unit that published a job with a relabel rule of
\* its own; the job returned carries that rule and the instance rule.
C38_Witness ==
    /\ creads = MaxReads
    /\ prels[1].scrape_jobs = <<JobMixed>>
    /\ prels[1].units # {}
    /\ ~cjobs.raises /\ Len(cjobs.value) = 1
    /\ Len(cjobs.value[1]["relabel_configs"]) = 2
    /\ Cardinality(C38_InstanceRules(cjobs.value[1])) = 1

\* the first seven characters of the model uuid
C39_ShortUuid == SubSeq(ModelUuid, 1, 7)

\* the name the aggregator gives to what it publishes for a peer
C39_NameOf(app, suffix) ==
    <<"j", "u", "j", "u", "_">> \o ModelName \o <<"_">> \o C39_ShortUuid
        \o <<"_">> \o app \o <<"_">> \o suffix

\* C39: in what the aggregator publishes, the job name and the alert group
\* name of a peer and the juju_model_uuid label stamped on its alert rules
\* use the first 7 characters of the model uuid, the juju_model_uuid label
\* of its static-config groups is the full model uuid, and with a model
\* uuid longer than 7 characters the two label values differ.
C39_UuidCutExceptInStaticConfigs ==
    \A r \in DownRels :
        LET jobs == pub[r].scrape_jobs
            groups == pub[r].alert_rules.groups
        IN  /\ \A j \in 1 .. Len(jobs) :
                  /\ \E app \in Apps : jobs[j].job_name = C39_NameOf(app, ScrapeSuffix)
                  /\ \A c \in 1 .. Len(jobs[j].static_configs) :
                        jobs[j].static_configs[c].labels.juju_model_uuid = ModelUuid
            /\ \A g \in 1 .. Len(groups) :
                  /\ \E app \in Apps : groups[g].name = C39_NameOf(app, RulesSuffix)
                  /\ \A k \in 1 .. Len(groups[g].rules) :
                        groups[g].rules[k].labels["juju_model_uuid"] = C39_ShortUuid
            /\ \A j \in 1 .. Len(jobs) : \A g \in 1 .. Len(groups) :
                  \A c \in 1 .. Len(jobs[j].static_configs) :
                     \A k \in 1 .. Len(groups[g].rules) :
                        Len(ModelUuid) > 7
                        => jobs[j].static_configs[c].labels.juju_model_uuid
                              # groups[g].rules[k].labels["juju_model_uuid"]

\* C39 witness: one peer, related over both endpoints, has a static-config
\* group and an alert rule published on a relation towards Prometheus, and
\* the model uuid has nine characters.
C39_Witness ==
    /\ Len(ModelUuid) = 9
    /\ Len(pub[1].scrape_jobs) = 1
    /\ pub[1].scrape_jobs[1].job_name = C39_NameOf(AppA, ScrapeSuffix)
    /\ Len(pub[1].scrape_jobs[1].static_configs) >= 1
    /\ Len(pub[1].alert_rules.groups) = 1
    /\ pub[1].alert_rules.groups[1].name = C39_NameOf(AppA, RulesSuffix)
    /\ Len(pub[1].alert_rules.groups[1].rules) >= 1

\* C36: in every reachable state the alert_rules value of each relation
\* towards Prometheus is absent, the empty object, or an object whose groups
\* list has at least one group, and every published group has at least one
\* rule.
C36_NoEmptyGroupList ==
    \A r \in DownRels :
        /\ pub[r].alert_rules.has_groups => pub[r].alert_rules.groups # <<>>
        /\ \A g \in 1 .. Len(pub[r].alert_rules.groups) :
              pub[r].alert_rules.groups[g].rules # <<>>

\* the job fragments and the rule groups a databag publishes, each with its
\* name and content, the order in the lists left aside
C34_Published(bag) ==
    [jobs |-> Range(bag.scrape_jobs), groups |-> Range(bag.alert_rules.groups)]

\* C34: once every notification has been handled to completion, all the
\* relations towards Prometheus whose join has been handled publish the same
\* set of job fragments and the same set of rule groups, whether they were
\* filled by the full resync of their join or by the merges since.
C34_DownstreamsAgree ==
    last \notin {"rules_changed_raised", "downstream_joined_raised"}
    => \A r1 \in joined : \A r2 \in joined :
          C34_Published(pub[r1]) = C34_Published(pub[r2])

\* the static-config groups labelled with unit u of app that relation r
\* publishes
C35_GroupsOfUnit(r, app, u) ==
    {<<j, c>> \in (1 .. Len(pub[r].scrape_jobs)) \X (1 .. NumUnits) :
        /\ c <= Len(pub[r].scrape_jobs[j].static_configs)
        /\ pub[r].scrape_jobs[j].static_configs[c].labels.juju_unit = UnitName(app, u)}

\* C35: from the handling of a target unit's departure until the unit is
\* back in the relation and a change notification of its peer is handled,
\* so whenever the unit is not among the units of its relation, no
\* relation towards Prometheus publishes a static-config group whose
\* juju_unit label is that unit.
C35_DepartedUnitStaysOut ==
    \A app \in Apps : \A u \in UnitsOf(app) :
        u \notin tunits[app] => \A r \in DownRels : C35_GroupsOfUnit(r, app, u) = {}

\* C35 witness: the departure of a/0 was just handled with two relations
\* towards Prometheus established; both publish the group of a/1, which
\* stayed, and none of a/0.
C35_Witness ==
    /\ last = "target_departed"
    /\ tunits[AppA] = {1}
    /\ down = DownRels
    /\ \A r \in DownRels :
          /\ C35_GroupsOfUnit(r, AppA, 1) # {}
          /\ C35_GroupsOfUnit(r, AppA, 0) = {}

\* the keys _set_unit_ip writes
C37_UnitKeys == {"prometheus_scrape_unit_address", "prometheus_scrape_unit_name"}

\* the two databags agree outside the keys of _set_unit_ip
C37_SameButUnitKeys(before, after) ==
    /\ (DOMAIN after) \ C37_UnitKeys = (DOMAIN before) \ C37_UnitKeys
    /\ \A k \in (DOMAIN before) \ C37_UnitKeys : after[k] = before[k]

\* C37: a run of set_scrape_job_spec or of PrometheusRulesProvider's
\* _update_relation_data on a unit that is not the leader leaves the
\* application data of every relation as it was (set_scrape_job_spec writes
\* only the unit's address and name, _update_relation_data nothing), and a
\* run of set_scrape_job_spec on the leader leaves scrape_metadata and
\* scrape_jobs written on every relation of the endpoint.
C37_LeaderOnlyPublication ==
    [][pdata'.run.n # pdata.run.n
          => IF ~pdata'.run.leader
             THEN \A r \in ProvRels :
                     /\ pdata'.rels[r].app = pdata.rels[r].app
                     /\ IF pdata'.run.handler = "set_scrape_job_spec"
                        THEN C37_SameButUnitKeys(pdata.rels[r].unit, pdata'.rels[r].unit)
                        ELSE pdata'.rels[r].unit = pdata.rels[r].unit
             ELSE pdata'.run.handler = "set_scrape_job_spec"
                  => \A r \in ProvRels :
                        pdata'.rels[r].present
                        => /\ {"scrape_metadata", "scrape_jobs"} \subseteq pdata'.rels[r].app.keys
                           /\ pdata'.rels[r].app.scrape_metadata =
                                 ItemsToDict(as_dict(ProviderUnitTopology, EmptyDict))
                           /\ pdata'.rels[r].app.scrape_jobs = ScrapeJobs(pdata)]_vars


\* the relation has at least one remote unit and alert_rules that are not empty
C40_HasRules(r) == prels[r].units # {} /\ palerts[r] # EmptyDict

\* the key of the claim for relation r: the topology identifier built from
\* scrape_metadata; without scrape_metadata the three labels of the first
\* group whose first rule carries them, then the name of the first group;
\* <<>> when there is none
C40_Key(r) ==
    IF prels[r].scrape_metadata # EmptyDict
    THEN ProviderIdentifier(FromRelationData(prels[r].scrape_metadata))
    ELSE LET groups == DictGet(palerts[r], "groups", <<>>)
             carrying == {g \in 1 .. Len(groups) :
                             /\ DictGet(groups[g], "rules", <<>>) # <<>>
                             /\ "labels" \in DOMAIN groups[g]["rules"][1]
                             /\ Range(IDENTIFIER_LABELS)
                                   \subseteq DOMAIN groups[g]["rules"][1]["labels"]}
         IN  IF carrying # {}
             THEN LET g == CHOOSE g \in carrying : \A h \in carrying : g <= h
                      labels == groups[g]["rules"][1]["labels"]
                  IN  JoinUnderscore(<<labels["juju_model"], labels["juju_model_uuid"],
                                       labels["juju_application"]>>)
             ELSE IF groups # <<>> THEN DictGet(groups[1], "name", <<>>)
             ELSE <<>>

\* C40: alerts() returns a mapping whose keys are those of the relations
\* that have at least one remote unit and non-empty alert_rules: the
\* topology identifier built from scrape_metadata or, scrape_metadata being
\* absent, the juju_model, juju_model_uuid and juju_application labels of the
\* first group whose first rule carries them joined by "_", then the first
\* group's name; a relation for which there is no such key, without units or
\* without rules has no entry.
C40_AlertsKeyedByIdentifier ==
    [][calerts'.n = calerts.n + 1
          => /\ ~calerts'.raises
             /\ DOMAIN calerts'.value =
                   {C40_Key(r) : r \in {q \in ProvRels : C40_HasRules(q)}} \ {<<>>}]_vars

====
